---------------------------- MODULE Spec2Model ----------------------------
(***************************************************************************)
(* A model of audio_cleanup.py (bcaptain404/vid-scripts): one run of       *)
(* main(), from the parsed arguments to the process exit, together with    *)
(* the helpers it calls (ffmpeg_cmd, get_video_rotation_filter,            *)
(* classify_content, suggest_preset, suggest_filters, auto_filters).       *)
(*                                                                         *)
(* Conventions.                                                            *)
(*  - A Python value that may be None is a sequence: <<>> is None and      *)
(*    <<v>> is the value v.                                                *)
(*  - Filter fragments are the strings of the source.  Numbers the source  *)
(*    formats into a fragment are formatted here too (IntStr, TenthsStr).  *)
(*  - Audio descriptors are scaled integers: zcr and rms in hundredths,    *)
(*    the spectral centroid in Hz.                                         *)
(*    audio_stats holds what analyze_audio returned to main at line 210.   *)
(*  - Rotation degrees are floats with a whole value: a sign and a         *)
(*    magnitude, so that 0.0 and -0.0 differ.  The radian value is the     *)
(*    IEEE-754 double the source computes (a 53-bit mantissa, an exponent  *)
(*    and a sign, each operation correctly rounded), and it is written as  *)
(*    Python's repr writes it.                                             *)
(*  - The external engine (ffmpeg) is an environment: each invocation      *)
(*    returns a status drawn from ReturnCodes, and a failed invocation     *)
(*    that was given the output path may or may not have written to it.    *)
(*  - stdout is the sequence of lines printed, each a tag and a text; the  *)
(*    descriptor values print_stats formats are not part of the text.      *)
(*  - The package commands of install_deps are an environment too: each    *)
(*    returns a status drawn from ReturnCodes.                             *)
(*  - Not modelled: --debug (unused), and failures of shutil.copy and of   *)
(*    librosa, which are taken to succeed.                                 *)
(***************************************************************************)
EXTENDS Integers, Sequences, FiniteSets, TLC

VARIABLES args, input_exists, out0, out, pc, filters, tmp, made, calls, exit, err,
          stdout, video_out, unit_in, unit_out, installs, audio_stats

vars == <<args, input_exists, out0, out, pc, filters, tmp, made, calls, exit, err,
          stdout, video_out, unit_in, unit_out, installs, audio_stats>>

---------------------------------------------------------------------------
(* Bounds of the model. *)

\* Treble levels range over -TrebleSlack .. TrebleMax + TrebleSlack when the
\* planner is fed directly (without the command line's range restriction).
TrebleSlack == 2

\* Rotation degrees handed to the rotation mapper: the multiples of 15 in
\* -15 * MaxDegSteps .. 15 * MaxDegSteps, and the negative zero.
MaxDegSteps == 54

---------------------------------------------------------------------------
(* Program constants. *)

TrebleMin == 1
TrebleMax == 10
TrebleHigh == 6
FullTurn == 360

None == <<>>
Some(v) == <<v>>

Range(s) == {s[i] : i \in 1..Len(s)}

---------------------------------------------------------------------------
(* Number formatting, as Python's str() of an int and of a float that has   *)
(* one decimal.                                                             *)

Digit(d) ==
    CASE d = 0 -> "0" [] d = 1 -> "1" [] d = 2 -> "2" [] d = 3 -> "3"
      [] d = 4 -> "4" [] d = 5 -> "5" [] d = 6 -> "6" [] d = 7 -> "7"
      [] d = 8 -> "8" [] d = 9 -> "9"

RECURSIVE NatStr(_)
NatStr(n) == IF n < 10 THEN Digit(n) ELSE NatStr(n \div 10) \o Digit(n % 10)

IntStr(n) == IF n < 0 THEN "-" \o NatStr(-n) ELSE NatStr(n)

\* str() of the float t/10 (t an integer number of tenths): "-4.5", "-3.0".
TenthsStr(t) ==
    LET a == IF t < 0 THEN -t ELSE t
    IN  (IF t < 0 THEN "-" ELSE "") \o NatStr(a \div 10) \o "." \o Digit(a % 10)

\* Rounding to one decimal with the half rounded away from zero.
RoundHalfUpTenths(h) == (h + 5) \div 10

\* round(h/100, 1) in tenths, for h >= 0 a number of hundredths that a float
\* holds exactly (a multiple of 25): Python rounds the half to even.
RoundHalfEvenTenths(h) ==
    LET q == h \div 10
        r == h % 10
    IN  IF r > 5 THEN q + 1
        ELSE IF r < 5 THEN q
        ELSE IF q % 2 = 0 THEN q ELSE q + 1

---------------------------------------------------------------------------
(* Natural numbers of any width, and IEEE-754 doubles on top of them.       *)

\* A natural number wider than a machine integer is the sequence of its
\* base-10000 limbs, most significant first, without leading zeros (zero is
\* the empty sequence).  The arithmetic is written as functions, which take
\* their arguments by value.
Base == 10000

Limbs[n \in Nat] == IF n = 0 THEN <<>> ELSE Append(Limbs[n \div Base], n % Base)

Zeros(n) == [i \in 1..n |-> 0]

Strip[ds \in Seq(Int)] ==
    IF \A i \in 1..Len(ds) : ds[i] = 0 THEN <<>>
    ELSE SubSeq(ds, CHOOSE i \in 1..Len(ds) :
                       ds[i] # 0 /\ \A k \in 1..(i - 1) : ds[k] = 0,
                Len(ds))

\* Limb i of ds written with n limbs, zeros in front.
At(ds, n, i) == IF i > n - Len(ds) THEN ds[i - (n - Len(ds))] ELSE 0

\* The number whose limb i is s[i] in 0 .. 2 * Base - 2 before carrying, with
\* room in the first limb.  The carry into limb i is one exactly when some
\* limb to its right overflows and every limb in between is at Base - 1.
Carried[s \in Seq(Int)] ==
    Strip[[i \in 1..Len(s) |->
             (s[i] + (IF \E j \in (i + 1)..Len(s) :
                           s[j] >= Base /\ \A l \in (i + 1)..(j - 1) : s[l] = Base - 1
                      THEN 1 ELSE 0)) % Base]]

\* The number whose limb i is s[i] in -(Base - 1) .. Base - 1 before
\* borrowing, for a number that is not negative.  The borrow from limb i is
\* one exactly when some limb to its right falls short and every limb in
\* between is level.
Borrowed[s \in Seq(Int)] ==
    Strip[[i \in 1..Len(s) |->
             (s[i] - (IF \E j \in (i + 1)..Len(s) :
                           s[j] < 0 /\ \A l \in (i + 1)..(j - 1) : s[l] = 0
                      THEN 1 ELSE 0)) % Base]]

Add[a \in Seq(Int), b \in Seq(Int)] ==
    LET n == 1 + (IF Len(a) > Len(b) THEN Len(a) ELSE Len(b))
    IN  Carried[[i \in 1..n |-> At(a, n, i) + At(b, n, i)]]

\* a - b for a >= b.
Sub[a \in Seq(Int), b \in Seq(Int)] ==
    Borrowed[[i \in 1..Len(a) |-> a[i] - At(b, Len(a), i)]]

\* ds * k for a machine integer 0 <= k <= Base: each limb times k is a low
\* limb in place and a high limb one place to the left.
MulSmall[ds \in Seq(Int), k \in Nat] ==
    Carried[[i \in 1..(Len(ds) + 1) |->
               (IF i > 1 THEN (ds[i - 1] * k) % Base ELSE 0)
                 + (IF i <= Len(ds) THEN (ds[i] * k) \div Base ELSE 0)]]

\* a * b for an a of at most five limbs.
Mul[a \in Seq(Int), b \in Seq(Int)] ==
    Add[Add[Add[Add[MulSmall[b, At(a, 5, 1)] \o Zeros(4),
                    MulSmall[b, At(a, 5, 2)] \o Zeros(3)],
                MulSmall[b, At(a, 5, 3)] \o Zeros(2)],
            MulSmall[b, At(a, 5, 4)] \o Zeros(1)],
        MulSmall[b, At(a, 5, 5)]]

\* Long division by a machine integer k, 1 <= k < 200000, limb by limb from
\* limb i on, with the remainder r and the quotient limbs q so far.
DivFrom[ds \in Seq(Int), k \in Nat, i \in Nat, r \in Nat, q \in Seq(Int)] ==
    IF i > Len(ds) THEN [q |-> Strip[q], r |-> r]
    ELSE DivFrom[ds, k, i + 1, (r * Base + ds[i]) % k,
                 Append(q, (r * Base + ds[i]) \div k)]

DivMod[ds \in Seq(Int), k \in Nat] == DivFrom[ds, k, 1, 0, <<>>]

\* What a division returns: the quotient and the remainder.
Quotients == [q : Seq(Int), r : Nat]

Less[a \in Seq(Int), b \in Seq(Int)] ==
    IF Len(a) # Len(b) THEN Len(a) < Len(b)
    ELSE \E i \in 1..Len(a) : a[i] < b[i] /\ \A k \in 1..(i - 1) : a[k] = b[k]

Odd(ds) == ds # <<>> /\ ds[Len(ds)] % 2 = 1

\* A quotient d.q with remainder d.r under the divisor k, rounded to the
\* nearest integer, the half to even.
Rounded[d \in Quotients, k \in Nat] ==
    IF 2 * d.r > k \/ (2 * d.r = k /\ Odd(d.q)) THEN Add[d.q, <<1>>] ELSE d.q

RoundDiv[ds \in Seq(Int), k \in Nat] == Rounded[DivMod[ds, k], k]

\* 2^n for n <= 78 and 5^n for n <= 65.
Pow2[n \in Nat] == IF n <= 26 THEN Limbs[2^n] ELSE Mul[Limbs[2^26], Pow2[n - 26]]

Pow5[n \in Nat] == IF n <= 13 THEN Limbs[5^n] ELSE Mul[Limbs[5^13], Pow5[n - 13]]

\* The decimal digits of a number and the number of a digit sequence.
DigitsOf[ds \in Seq(Int)] ==
    Strip[[i \in 1..(4 * Len(ds)) |->
             (ds[(i + 3) \div 4] \div 10^((4 - (i % 4)) % 4)) % 10]]

OfDigits[d \in Seq(Int)] ==
    LET n == (Len(d) + 3) \div 4
    IN  Strip[[i \in 1..n |->
                 1000 * At(d, 4 * n, 4 * i - 3) + 100 * At(d, 4 * n, 4 * i - 2)
                   + 10 * At(d, 4 * n, 4 * i - 1) + At(d, 4 * n, 4 * i)]]

\* The number of the digits d without its last n digits, rounded to the
\* nearest, the half to even.
DropDecimals[d \in Seq(Int), n \in Nat] ==
    LET q == OfDigits[SubSeq(d, 1, Len(d) - n)]
        first == d[Len(d) - n + 1]
    IN  IF first > 5
           \/ (first = 5 /\ (Odd(q) \/ \E i \in (Len(d) - n + 2)..Len(d) : d[i] # 0))
        THEN Add[q, <<1>>] ELSE q

\* A double is a sign, a 53-bit mantissa m (2^52 <= m < 2^53, or zero) and
\* an exponent e: the value is m * 2^e.
Doubles == [neg : BOOLEAN, m : Seq(Nat), e : Int]

Two52 == Pow2[52]
Two53 == Pow2[53]

\* A mantissa that rounding carried up to 2^53 is 2^52 one exponent higher.
Normal[neg \in BOOLEAN, m \in Seq(Int), e \in Int] ==
    IF m = Two53 THEN [neg |-> neg, m |-> Two52, e |-> e + 1]
    ELSE [neg |-> neg, m |-> m, e |-> e]

\* The double of a whole number of degrees: a sign and a magnitude, so
\* that 0.0 and -0.0 differ.
Wholes == [neg : BOOLEAN, mag : Nat]

Float(n) == [neg |-> n < 0, mag |-> IF n < 0 THEN -n ELSE n]

\* The literal 3.141592653589793: the double nearest to
\* 3141592653589793 / 10^15; it lies in [2, 4), so its exponent is -51.
PiMantissa == DropDecimals[DigitsOf[Mul[<<3141, 5926, 5358, 9793>>, Pow2[51]]], 15]

\* The number of bits p has beyond 53, for p < 2^67.
Excess[p \in Seq(Int)] == Cardinality({k \in 1..14 : ~Less[p, Pow2[52 + k]]})

\* The double nearest to p * 2^(-51), for 2^52 <= p < 2^67.
Scaled[neg \in BOOLEAN, p \in Seq(Int), k \in Nat] ==
    Normal[neg, RoundDiv[p, 2^k], k - 51]

\* angle * 3.141592653589793, correctly rounded, for |angle| < 8192.
TimesPi[angle \in Wholes] ==
    IF angle.mag = 0 THEN [neg |-> angle.neg, m |-> <<>>, e |-> 0]
    ELSE Scaled[angle.neg, MulSmall[PiMantissa, angle.mag],
                Excess[MulSmall[PiMantissa, angle.mag]]]

\* x / 180.0, correctly rounded: m * 2^s / 180 has 53 bits for s = 7 or 8.
Over180[x \in Doubles] ==
    IF x.m = <<>> THEN x
    ELSE IF Less[DivMod[MulSmall[x.m, 2^8], 180].q, Two53]
    THEN Normal[x.neg, RoundDiv[MulSmall[x.m, 2^8], 180], x.e - 8]
    ELSE Normal[x.neg, RoundDiv[MulSmall[x.m, 2^7], 180], x.e - 7]

Radians(angle) == Over180[TimesPi[angle]]

\* The reals that round to the double x, scaled by 10^f, f = 2 - e, so that
\* the ends are integers: v = x * 10^f = 4 * m * 5^f, and lo < v < hi with
\* hi - v half the gap to the next double, w = 2 * 5^f, and v - lo half the
\* gap to the previous one (w, and half of that when m is 2^52).  The three
\* are given by their decimal digits, at the same length.
Intervals == [f : Nat, v : Seq(Nat), hi : Seq(Nat), lo : Seq(Nat)]

Aligned[f \in Nat, v \in Seq(Int), hi \in Seq(Int), lo \in Seq(Int)] ==
    [f |-> f, v |-> Zeros(Len(hi) - Len(v)) \o v, hi |-> hi,
     lo |-> Zeros(Len(hi) - Len(lo)) \o lo]

Around[f \in Nat, v \in Seq(Int), up \in Seq(Int), down \in Seq(Int)] ==
    Aligned[f, DigitsOf[v], DigitsOf[Add[v, up]], DigitsOf[Sub[v, down]]]

Interval[x \in Doubles] ==
    Around[2 - x.e, Mul[MulSmall[x.m, 4], Pow5[2 - x.e]],
           MulSmall[Pow5[2 - x.e], 2],
           MulSmall[Pow5[2 - x.e], IF x.m = Two52 THEN 1 ELSE 2]]

\* The first n digits of d followed by zeros, and the next such number.
Below[d \in Seq(Int), n \in Nat] == [i \in 1..Len(d) |-> IF i <= n THEN d[i] ELSE 0]

Above[d \in Seq(Int), n \in Nat] ==
    IF \A i \in 1..n : d[i] = 9 THEN <<1>> \o Zeros(Len(d))
    ELSE [i \in 1..Len(d) |->
            IF i > n THEN 0
            ELSE IF \A k \in (i + 1)..n : d[k] = 9
            THEN (IF d[i] = 9 THEN 0 ELSE d[i] + 1)
            ELSE d[i]]

\* The order of digit sequences of the same length.
Before[a \in Seq(Int), b \in Seq(Int)] ==
    Len(a) = Len(b)
      /\ \E i \in 1..Len(a) : a[i] < b[i] /\ \A k \in 1..(i - 1) : a[k] = b[k]

\* A decimal of n digits lies strictly inside the interval.
Fits[iv \in Intervals, n \in Nat] ==
    Before[iv.lo, Below[iv.v, n]] \/ Before[Above[iv.v, n], iv.hi]

\* The nearer to v of the two decimals of n digits around it, the one with
\* the even last digit when they are as near.
Nearer[v \in Seq(Int), below \in Seq(Int), above \in Seq(Int), n \in Nat] ==
    LET down == Sub[OfDigits[v], OfDigits[below]]
        up == Sub[OfDigits[above], OfDigits[v]]
    IN  IF Less[down, up] THEN below
        ELSE IF Less[up, down] THEN above
        ELSE IF below[n] % 2 = 0 THEN below ELSE above

\* The decimal of n digits that is written: the one inside the interval,
\* the nearer when both are.
Best[iv \in Intervals, n \in Nat] ==
    IF ~Before[Above[iv.v, n], iv.hi] THEN Below[iv.v, n]
    ELSE IF ~Before[iv.lo, Below[iv.v, n]] THEN Above[iv.v, n]
    ELSE Nearer[iv.v, Below[iv.v, n], Above[iv.v, n], n]

DigitsStr[d \in Seq(Int)] ==
    IF Len(d) = 0 THEN ""
    ELSE IF Len(d) = 1 THEN Digit(d[1])
    ELSE DigitsStr[SubSeq(d, 1, Len(d) \div 2)]
           \o DigitsStr[SubSeq(d, Len(d) \div 2 + 1, Len(d))]

\* The digits d with the point f digits from the right, without trailing
\* zeros after the first decimal.
Pointed[d \in Seq(Int), f \in Nat] ==
    LET whole == Strip[SubSeq(d, 1, Len(d) - f)]
        frac == SubSeq(d, Len(d) - f + 1, Len(d))
        last == CHOOSE i \in 1..f : (i = 1 \/ frac[i] # 0) /\ \A k \in (i + 1)..f : frac[k] = 0
    IN  (IF whole = <<>> THEN "0" ELSE DigitsStr[whole])
          \o "." \o DigitsStr[SubSeq(frac, 1, last)]

\* The shortest decimal inside the interval, the nearest to v of that length.
Shortest[iv \in Intervals] ==
    Pointed[Zeros(iv.f + 1 - Len(iv.v))
              \o Best[iv, CHOOSE n \in 0..Len(iv.v) :
                             Fits[iv, n] /\ (n > 0 => ~Fits[iv, n - 1])],
            iv.f]

\* repr(x) for 0.0001 <= |x| < 10^16 and for the zeros: the shortest decimal
\* that reads back as x, the nearest to x among the shortest.
FloatRepr[x \in Doubles] ==
    (IF x.neg THEN "-" ELSE "")
      \o (IF x.m = <<>> THEN "0.0" ELSE Shortest[Interval[x]])

\* repr() of a float with a whole value: "45.0", "-90.0", "-0.0".
WholeStr(x) == (IF x.neg THEN "-" ELSE "") \o NatStr(x.mag) \o ".0"

\* The whole number a whole-valued float stands for.
Whole(x) == IF x.neg THEN -x.mag ELSE x.mag

\* Unary minus on a float flips the sign bit.
Negated(x) == [neg |-> ~x.neg, mag |-> x.mag]

---------------------------------------------------------------------------
(* vid_tools.get_video_rotation_filter *)

\* A mapper that ignores the direction.
SignedAngleCw(degrees, direction) == degrees

\* Lines 7-9: counterclockwise negates the angle.
SignedAngle(degrees, direction) ==
    IF direction = "ccw" THEN Negated(degrees) ELSE degrees

\* A mapper that compares the angle itself with the right angles.
AngleUnreduced(angle) == angle

\* Line 10, Python's float % 360: the result has the sign of the divisor,
\* and a zero result is 0.0 whatever the sign of the angle.
AngleMod(angle) == Float(Whole(angle) % FullTurn)

RotateAngleReduced(angle) == AngleMod(angle)

\* The angle the continuous-rotation fragment is computed from (line 20 uses
\* `angle`, not `angle_mod`).
RotateAngle(angle) == angle

\* Lines 13-21: what the function returns.
get_video_rotation_filter(degrees, direction) ==
    LET angle == SignedAngle(degrees, direction)
        angle_mod == Whole(AngleMod(angle))
    IN  IF angle_mod \in {90, -270} THEN "transpose=1"
        ELSE IF angle_mod \in {270, -90} THEN "transpose=2"
        ELSE IF angle_mod \in {180, -180} THEN "transpose=2,transpose=2"
        ELSE "rotate=" \o FloatRepr[Radians(RotateAngle(angle))] \o ":bilinear=1"

\* Line 12: what the function prints on every call, before it returns.
RotationTrace(degrees, direction) ==
    [tag |-> "vid_tools",
     text |-> "[vid_tools] Calculating rotation filter: degrees=" \o WholeStr(degrees)
                \o ", direction=" \o direction \o ", angle_mod="
                \o WholeStr(AngleMod(SignedAngle(degrees, direction)))]

---------------------------------------------------------------------------
(* audio_analysis: classify_content, suggest_preset, suggest_filters,       *)
(* auto_filters.  stats = [rms, zcr, centroid], rms and zcr in hundredths.  *)

ZcrVals == {3, 4, 6, 8, 9}
CentroidVals == {2000, 2500, 3000, 3500, 3600, 4000, 4100, 5000, 5100, 6000, 6100}
RmsVals == {1, 2, 3, 20, 30, 31}

StatsSpace == [rms : RmsVals, zcr : ZcrVals, centroid : CentroidVals]

\* The triples analyze_audio returns in the runs of main: the triples of
\* StatsSpace that lie off the thresholds, at least one on each side of each.
MeasuredRms == {1, 2, 20, 31}
MeasuredZcr == {3, 6, 9}
MeasuredCentroid == {2000, 3000, 3600, 4100, 5100, 6100}

MeasuredStats ==
    {s \in StatsSpace : /\ s.rms \in MeasuredRms
                        /\ s.zcr \in MeasuredZcr
                        /\ s.centroid \in MeasuredCentroid}

\* A classifier that tests the loudness rule before the two zcr rules.
classify_content_LoudnessFirst(stats) ==
    IF stats.rms < 2 THEN "speech/podcast"
    ELSE IF stats.zcr > 8 /\ stats.centroid > 4000 THEN "vocals"
    ELSE IF stats.zcr < 4 /\ stats.centroid < 2500 THEN "instrumental"
    ELSE IF stats.centroid > 6000 THEN "sibilant/harsh (maybe live vocals)"
    ELSE "music/mixed"

classify_content(stats) ==
    IF stats.zcr > 8 /\ stats.centroid > 4000 THEN "vocals"
    ELSE IF stats.zcr < 4 /\ stats.centroid < 2500 THEN "instrumental"
    ELSE IF stats.rms < 2 THEN "speech/podcast"
    ELSE IF stats.centroid > 6000 THEN "sibilant/harsh (maybe live vocals)"
    ELSE "music/mixed"

suggest_preset(content_type) ==
    CASE content_type = "vocals" -> "vocals"
      [] content_type = "instrumental" -> "inst"
      [] content_type = "music/mixed" -> "music"
      [] content_type = "speech/podcast" -> "podcast"
      [] content_type = "sibilant/harsh (maybe live vocals)" -> "vocals + de-ess"
      [] OTHER -> "music"

\* The lines suggest_filters prints after the descriptors.
suggest_filters(stats) ==
    LET ctype == classify_content(stats)
    IN  <<[tag |-> "analysis", text |-> "# Smart-AF Auto Analysis:"],
          [tag |-> "stats", text |-> ""],
          [tag |-> "ctype", text |-> ctype],
          [tag |-> "preset", text |-> suggest_preset(ctype)]>>
        \o (IF stats.rms < 3 THEN <<[tag |-> "flag", text |-> "--normalize"]>> ELSE <<>>)
        \o (IF stats.rms > 30 THEN <<[tag |-> "flag", text |-> "--compress"]>> ELSE <<>>)
        \o (IF stats.centroid > 3500 THEN <<[tag |-> "flag", text |-> "--eq"]>> ELSE <<>>)
        \o (IF stats.centroid > 5000 THEN <<[tag |-> "flag", text |-> "--deess"]>> ELSE <<>>)

AutoBase(ctype) ==
    IF ctype = "vocals"
    THEN <<"highpass=f=80", "lowpass=f=12000", "deesser",
           "loudnorm=I=-14:TP=-1.5:LRA=11">>
    ELSE IF ctype = "instrumental"
    THEN <<"highpass=f=60", "lowpass=f=16000", "loudnorm=I=-14:TP=-1.5:LRA=11">>
    ELSE IF ctype = "speech/podcast"
    THEN <<"highpass=f=100", "lowpass=f=8000", "loudnorm=I=-16:TP=-2:LRA=10">>
    ELSE <<"highpass=f=80", "lowpass=f=14000",
           "acompressor=threshold=-18dB:ratio=3:attack=20:release=250",
           "loudnorm=I=-14:TP=-1.5:LRA=11">>

\* An auto_filters that appends the EQ pair and the de-esser without
\* looking the fragment up in the list.
auto_filters_NoLookup(stats) ==
    LET f0 == AutoBase(classify_content(stats))
        f1 == IF stats.centroid > 6000
              THEN f0 \o <<"equalizer=f=6000:t=q:w=1.5:g=-6",
                           "equalizer=f=10000:t=q:w=1.5:g=-8">>
              ELSE f0
        f2 == IF stats.centroid > 3500
              THEN f1 \o <<"highpass=f=80", "lowpass=f=12000">>
              ELSE f1
        f3 == IF stats.centroid > 5000 THEN Append(f2, "deesser") ELSE f2
    IN  f3

auto_filters(stats) ==
    LET f0 == AutoBase(classify_content(stats))
        f1 == IF stats.centroid > 6000
              THEN f0 \o <<"equalizer=f=6000:t=q:w=1.5:g=-6",
                           "equalizer=f=10000:t=q:w=1.5:g=-8">>
              ELSE f0
        f2 == IF stats.centroid > 3500 /\ "highpass=f=80" \notin Range(f1)
              THEN f1 \o <<"highpass=f=80", "lowpass=f=12000">>
              ELSE f1
        f3 == IF stats.centroid > 5000 /\ "deesser" \notin Range(f2)
              THEN Append(f2, "deesser")
              ELSE f2
    IN  f3

---------------------------------------------------------------------------
(* The filter planner: main, lines 158-207. *)

AllFilters ==
    <<"highpass=f=80", "lowpass=f=12000",
      "acompressor=threshold=-18dB:ratio=3:attack=20:release=250",
      "loudnorm=I=-14:TP=-1.5:LRA=11">>

\* The flag blocks with the EQ block moved in front of the normalize blocks.
FlagChainEqFirst(a) ==
    (IF a.all THEN AllFilters ELSE <<>>)
    \o (IF a.eq THEN <<"highpass=f=80", "lowpass=f=12000">> ELSE <<>>)
    \o (IF a.normalize THEN <<"dynaudnorm">> ELSE <<>>)
    \o (IF a.normalize_extra THEN <<"loudnorm=I=-14:TP=-1.5:LRA=11">> ELSE <<>>)
    \o (IF a.compress
        THEN <<"acompressor=threshold=-18dB:ratio=3:attack=20:release=250">>
        ELSE <<>>)
    \o (IF a.compress_extra
        THEN <<"acompressor=threshold=-24dB:ratio=6:attack=5:release=100">>
        ELSE <<>>)
    \o (IF a.eq_extra THEN <<"equalizer=f=2000:t=q:w=1:g=3">> ELSE <<>>)
    \o (IF a.deess THEN <<"deesser">> ELSE <<>>)

\* Append xs unless its first fragment is in the list already.
AppendNew(f, xs) == IF xs[1] \in Range(f) THEN f ELSE f \o xs

\* Flag blocks that skip a fragment the list already holds.
FlagChainDedup(a) ==
    LET f0 == IF a.all THEN AllFilters ELSE <<>>
        f1 == IF a.normalize THEN AppendNew(f0, <<"dynaudnorm">>) ELSE f0
        f2 == IF a.normalize_extra
              THEN AppendNew(f1, <<"loudnorm=I=-14:TP=-1.5:LRA=11">>) ELSE f1
        f3 == IF a.compress
              THEN AppendNew(f2, <<"acompressor=threshold=-18dB:ratio=3:attack=20:release=250">>)
              ELSE f2
        f4 == IF a.compress_extra
              THEN AppendNew(f3, <<"acompressor=threshold=-24dB:ratio=6:attack=5:release=100">>)
              ELSE f3
        f5 == IF a.eq THEN AppendNew(f4, <<"highpass=f=80", "lowpass=f=12000">>) ELSE f4
        f6 == IF a.eq_extra THEN AppendNew(f5, <<"equalizer=f=2000:t=q:w=1:g=3">>) ELSE f5
    IN  IF a.deess THEN AppendNew(f6, <<"deesser">>) ELSE f6

\* Lines 158-178: --all seeds the list, each flag appends, in this order.
FlagChain(a) ==
    (IF a.all THEN AllFilters ELSE <<>>)
    \o (IF a.normalize THEN <<"dynaudnorm">> ELSE <<>>)
    \o (IF a.normalize_extra THEN <<"loudnorm=I=-14:TP=-1.5:LRA=11">> ELSE <<>>)
    \o (IF a.compress
        THEN <<"acompressor=threshold=-18dB:ratio=3:attack=20:release=250">>
        ELSE <<>>)
    \o (IF a.compress_extra
        THEN <<"acompressor=threshold=-24dB:ratio=6:attack=5:release=100">>
        ELSE <<>>)
    \o (IF a.eq THEN <<"highpass=f=80", "lowpass=f=12000">> ELSE <<>>)
    \o (IF a.eq_extra THEN <<"equalizer=f=2000:t=q:w=1:g=3">> ELSE <<>>)
    \o (IF a.deess THEN <<"deesser">> ELSE <<>>)

\* Line 179, `if args.tame_treble:`: None and 0 are both false in Python.
TrebleRequested(a) == a.tame_treble # None /\ a.tame_treble[1] # 0

\* Line 182.
TrebleInvalid(level) == level < TrebleMin \/ level > TrebleMax

\* Lines 187-189, in tenths of a dB (g6000 stays an int in Python).
G6000(level) == -1 * level
G10000Tenths(level) == -15 * level
G14000Tenths(level) ==
    IF level >= TrebleHigh
    THEN (IF level >= 0 THEN -RoundHalfEvenTenths(75 * level)
                        ELSE RoundHalfEvenTenths(75 * (-level)))
    ELSE 0

\* Lines 191-194.
TrebleChain(level) ==
    <<"equalizer=f=6000:t=q:w=1.5:g=" \o IntStr(G6000(level)),
      "equalizer=f=10000:t=q:w=1.5:g=" \o TenthsStr(G10000Tenths(level))>>
    \o (IF G14000Tenths(level) < 0
        THEN <<"equalizer=f=14000:t=q:w=1.2:g=" \o TenthsStr(G14000Tenths(level))>>
        ELSE <<>>)

\* A planner whose --preset leaves the accumulated list as it is.
PresetChainKeepsFlags(a, f) == f

\* Lines 195-207: a recognized preset replaces the list.
PresetChain(a, f) ==
    IF a.preset = None \/ a.preset = Some("") THEN f
    ELSE IF a.preset[1] = "vocals"
    THEN <<"highpass=f=80", "lowpass=f=12000", "deesser",
           "loudnorm=I=-14:TP=-1.5:LRA=11">>
    ELSE IF a.preset[1] = "inst"
    THEN <<"highpass=f=60", "lowpass=f=16000", "loudnorm=I=-14:TP=-1.5:LRA=11">>
    ELSE IF a.preset[1] = "music"
    THEN <<"highpass=f=80", "lowpass=f=14000",
           "acompressor=threshold=-18dB:ratio=3:attack=20:release=250",
           "loudnorm=I=-14:TP=-1.5:LRA=11">>
    ELSE IF a.preset[1] = "podcast"
    THEN <<"highpass=f=100", "lowpass=f=8000", "loudnorm=I=-16:TP=-2:LRA=10">>
    ELSE f

\* The list at line 208, when the treble check did not end the run.
PlannedChain(a) ==
    PresetChain(a, FlagChain(a)
                   \o (IF TrebleRequested(a) THEN TrebleChain(a.tame_treble[1])
                                             ELSE <<>>))

---------------------------------------------------------------------------
(* The command line and the files a run starts from. *)

Exts == {".wav", ".WAV", ".flac", ".mp4", ".txt"}

\* str.lower() on the extensions of Exts.
Lower(e) == IF e = ".WAV" THEN ".wav" ELSE e

allowed_ext == {".wav", ".mp4", ".mov", ".mkv", ".flac"}

\* os.path.exists(args.img): of the two image names, one is a file.
ImgExists(name) == name = "cover.png"

ReturnCodes == {0, 1}

Defaults ==
    [ext |-> ".wav", overwrite |-> FALSE, classify |-> FALSE, img |-> None,
     all |-> FALSE, normalize |-> FALSE, normalize_extra |-> FALSE,
     compress |-> FALSE, compress_extra |-> FALSE, eq |-> FALSE,
     eq_extra |-> FALSE, deess |-> FALSE, tame_treble |-> None,
     preset |-> None, auto_suggest |-> FALSE, auto_apply |-> FALSE,
     dry_run |-> FALSE, mp3 |-> FALSE, no_vid |-> FALSE, report |-> FALSE,
     rotate_cw |-> None, rotate_ccw |-> None, verbose |-> FALSE,
     install_deps |-> FALSE, install_deps_full |-> FALSE]

\* Runs of the pipeline: every input kind, output option and rotation
\* request, with a chain that is empty, the EQ pair or a preset.
PipelineArgs ==
    {[Defaults EXCEPT !.ext = e, !.overwrite = ow, !.eq = q, !.preset = p,
                      !.dry_run = d, !.mp3 = m, !.no_vid = nv, !.report = r,
                      !.rotate_cw = cw, !.rotate_ccw = ccw] :
        e \in Exts, ow \in BOOLEAN, q \in BOOLEAN,
        p \in {None, Some("podcast"), Some("bogus")},
        d \in BOOLEAN, m \in BOOLEAN, nv \in BOOLEAN, r \in BOOLEAN,
        cw \in {None, Some(Float(90)), Some(Float(45))},
        ccw \in {None, Some(Float(90))}}

\* Runs of the modes that end before the pipeline, and of the planner's
\* inputs, on an audio and on a video input.
ModeArgs ==
    {[Defaults EXCEPT !.ext = e, !.overwrite = TRUE, !.classify = c, !.img = i,
                      !.eq = q, !.normalize_extra = ne, !.preset = p,
                      !.tame_treble = t,
                      !.auto_suggest = s, !.auto_apply = ap, !.dry_run = d,
                      !.verbose = v] :
        e \in {".wav", ".mp4"}, c \in BOOLEAN,
        i \in {None, Some("cover.png"), Some("missing.png")},
        q \in BOOLEAN, ne \in BOOLEAN,
        p \in {None, Some("vocals"), Some("bogus")},
        t \in {None, Some(TrebleMin), Some(TrebleMax)},
        s \in BOOLEAN, ap \in BOOLEAN, d \in BOOLEAN, v \in BOOLEAN}

\* Runs asked to install the dependencies, by one flag or by both, whatever
\* else the command line says.
InstallArgs ==
    {[Defaults EXCEPT !.install_deps = i[1], !.install_deps_full = i[2],
                      !.ext = e, !.overwrite = ow, !.eq = q, !.dry_run = d] :
        i \in {<<TRUE, FALSE>>, <<FALSE, TRUE>>, <<TRUE, TRUE>>},
        e \in {".wav", ".mp4", ".txt"}, ow \in BOOLEAN, q \in BOOLEAN,
        d \in BOOLEAN}

\* What argparse can hand to main (line 94 restricts --tame-treble to 1..10).
CliArgs == PipelineArgs \cup ModeArgs \cup InstallArgs

TempFiles == {"tmpdir", "audio.wav", "processed.wav", "video.mp4",
              "video_rotated.mp4", "final_out.wav"}

Init ==
    /\ args \in CliArgs
    /\ input_exists \in BOOLEAN
    /\ out0 \in {"absent", "old"}
    /\ out = out0
    /\ pc = "validate"
    /\ filters = <<>>
    /\ tmp = {}
    /\ made = {}
    /\ calls = <<>>
    /\ exit = -1
    /\ err = "none"
    /\ stdout = <<>>
    /\ video_out = None
    /\ unit_in = None
    /\ unit_out = None
    /\ installs = <<>>
    /\ audio_stats = None

---------------------------------------------------------------------------
(* Leaving the run. *)

RECURSIVE Join(_)
\* ",".join(filters)
Join(f) ==
    IF f = <<>> THEN ""
    ELSE IF Len(f) = 1 THEN f[1]
    ELSE f[1] \o "," \o Join(Tail(f))

Line(tag, text) == [tag |-> tag, text |-> text]

\* A run that leaves its temporary directory behind.
TmpDirLeak(files) == files

\* `with tempfile.TemporaryDirectory()` (line 243): leaving the block, by its
\* end or by the SystemExit that sys.exit raises, removes the directory and
\* everything in it.
TmpDirExit(files) == {}

\* sys.exit(code) before the with block: the run is over.
Terminate(code, kind) ==
    /\ pc' = "done"
    /\ exit' = code
    /\ err' = kind
    /\ tmp' = tmp

\* Leaving the with block, by sys.exit(code) or by its end: the run is over
\* and the temporary directory, which held `files`, is released.
ExitWith(code, kind, files) ==
    /\ pc' = "done"
    /\ exit' = code
    /\ err' = kind
    /\ tmp' = TmpDirExit(files)

\* What the engine leaves at the output path it was given: the finished file
\* when it returns zero; when it fails, the path as it was or a partial file
\* (ffmpeg -y opens and truncates its output before it encodes).
EngineWrites(rc, cur) == IF rc = 0 THEN {"written"} ELSE {cur, "partial"}

\* An ffmpeg_cmd that returns the result without looking at its return code.
EngineNeverFatal(rc) == FALSE

\* ffmpeg_cmd, lines 79-81: a non-zero return code ends the run.
EngineFatal(rc) == rc # 0

Call(stage, src, dst, vf, rc) ==
    [stage |-> stage, src |-> src, dst |-> dst, vf |-> vf, rc |-> rc]

\* The rotation request, lines 228-238 and 275-285.
RotationConflict(a) == a.rotate_cw # None /\ a.rotate_ccw # None
Rotation(a) ==
    IF a.rotate_cw # None THEN a.rotate_cw
    ELSE IF a.rotate_ccw # None THEN a.rotate_ccw
    ELSE None
Direction(a) ==
    IF a.rotate_cw # None THEN "cw"
    ELSE IF a.rotate_ccw # None THEN "ccw"
    ELSE "cw"

\* Line 261: the branch that writes the processed audio to the output path.
AudioOnlyBranch(a) == a.no_vid \/ Lower(a.ext) = ".wav"

\* Line 310: the report demuxes the output's audio first.
ReportDemux(a) == ~a.no_vid /\ Lower(a.ext) # ".wav" /\ ~a.mp3

---------------------------------------------------------------------------
(* main, one action per stage. *)

\* install_deps, lines 64-70: the commands it runs, in order.
InstallCmds(full) ==
    <<"sudo apt update", "sudo apt install -y ffmpeg">>
      \o (IF full THEN <<"sudo apt install -y python3-pip",
                         "pip3 install numpy librosa soundfile">>
                  ELSE <<>>)

\* Lines 117-122, the first thing main does, and install_deps (lines 61-73).
\* --install-deps is looked at first, so with both flags the short list is
\* installed.  subprocess.run(cmd, check=True) raises on a non-zero status:
\* nothing catches it, the later commands are not run and the interpreter
\* exits with status 1.  Otherwise main returns, whatever else was asked.
\* The emoji that opens the last printed line (line 73) is left out of its
\* text: strings here are ASCII.
InstallDeps ==
    /\ pc = "validate"
    /\ args.install_deps \/ args.install_deps_full
    /\ LET cmds == InstallCmds(~args.install_deps)
       IN  \E n \in 1..Len(cmds) : \E rc \in ReturnCodes :
             /\ rc = 0 => n = Len(cmds)
             /\ installs' = [i \in 1..n |->
                               [cmd |-> cmds[i], rc |-> IF i < n THEN 0 ELSE rc]]
             /\ IF rc = 0
                THEN /\ stdout' = stdout \o <<Line("installing", "Installing dependencies..."),
                                              Line("installed", "Dependencies installed.")>>
                     /\ Terminate(0, "none")
                ELSE /\ stdout' = Append(stdout, Line("installing", "Installing dependencies..."))
                     /\ Terminate(1, "CalledProcessError")
    /\ UNCHANGED <<args, input_exists, out0, out, filters, made, calls,
                   video_out, unit_in, unit_out, audio_stats>>

\* Lines 124-139.
Validate ==
    /\ pc = "validate"
    /\ ~args.install_deps /\ ~args.install_deps_full
    /\ IF ~input_exists
       THEN Terminate(1, "InputNotFound") /\ stdout' = Append(stdout, Line("error", "InputNotFound"))
       ELSE IF Lower(args.ext) \notin allowed_ext
       THEN Terminate(1, "UnsupportedFormat") /\ stdout' = Append(stdout, Line("error", "UnsupportedFormat"))
       ELSE IF out # "absent" /\ ~args.overwrite
       THEN Terminate(1, "OutputExists") /\ stdout' = Append(stdout, Line("error", "OutputExists"))
       ELSE /\ pc' = "classify"
            /\ UNCHANGED <<exit, err, tmp, stdout>>
    /\ UNCHANGED <<installs, args, input_exists, out0, out, filters, made,
                   calls, video_out, unit_in, unit_out, audio_stats>>

\* Lines 141-148.
Classify ==
    /\ pc = "classify"
    /\ IF args.classify
       THEN \E stats \in MeasuredStats :
              /\ stdout' = stdout \o
                    <<Line("ctype", classify_content(stats)),
                      Line("preset", suggest_preset(classify_content(stats)))>>
              /\ Terminate(0, "none")
       ELSE /\ pc' = "img"
            /\ UNCHANGED <<exit, err, tmp, stdout>>
    /\ UNCHANGED <<installs, args, input_exists, out0, out, filters, made,
                   calls, video_out, unit_in, unit_out, audio_stats>>

\* Lines 150-156.
CheckImg ==
    /\ pc = "img"
    /\ IF args.img # None /\ args.img # Some("")
       THEN IF ~ImgExists(args.img[1])
            THEN Terminate(1, "ImageNotFound") /\ stdout' = Append(stdout, Line("error", "ImageNotFound"))
            ELSE IF Lower(args.ext) \notin {".mp3", ".wav", ".flac"}
            THEN Terminate(1, "ImageNeedsAudio") /\ stdout' = Append(stdout, Line("error", "ImageNeedsAudio"))
            ELSE pc' = "plan" /\ UNCHANGED <<exit, err, tmp, stdout>>
       ELSE pc' = "plan" /\ UNCHANGED <<exit, err, tmp, stdout>>
    /\ UNCHANGED <<installs, args, input_exists, out0, out, filters, made,
                   calls, video_out, unit_in, unit_out, audio_stats>>

\* Lines 158-207.
Plan ==
    /\ pc = "plan"
    /\ IF TrebleRequested(args) /\ TrebleInvalid(args.tame_treble[1])
       THEN /\ Terminate(1, "InvalidTrebleLevel")
            /\ stdout' = Append(stdout, Line("error", "InvalidTrebleLevel"))
            /\ filters' = FlagChain(args)
       ELSE /\ filters' = PlannedChain(args)
            /\ pc' = "auto"
            /\ UNCHANGED <<exit, err, tmp, stdout>>
    /\ UNCHANGED <<installs, args, input_exists, out0, out, made, calls,
                   video_out, unit_in, unit_out, audio_stats>>

\* An --auto-suggest that prints its advice and lets the run go on.
AutoModeSuggestGoesOn ==
    /\ pc = "auto"
    /\ IF args.auto_suggest \/ args.auto_apply
       THEN \E stats \in MeasuredStats :
              /\ audio_stats' = Some(stats)
              /\ filters' = (IF args.auto_apply THEN auto_filters(stats) ELSE filters)
              /\ stdout' = stdout
                    \o (IF args.auto_suggest THEN suggest_filters(stats) ELSE <<>>)
                    \o (IF args.auto_apply /\ args.verbose
                        THEN <<Line("auto-applied", Join(auto_filters(stats)))>>
                        ELSE <<>>)
              /\ pc' = "check_empty"
              /\ UNCHANGED <<exit, err, tmp>>
       ELSE /\ pc' = "check_empty"
            /\ UNCHANGED <<exit, err, tmp, stdout, filters, audio_stats>>
    /\ UNCHANGED <<installs, args, input_exists, out0, out, made, calls, video_out,
                   unit_in, unit_out>>

\* An --auto-apply that appends its plan to the chain of the flags.
AutoModeAppends ==
    /\ pc = "auto"
    /\ IF args.auto_suggest \/ args.auto_apply
       THEN \E stats \in MeasuredStats :
              IF args.auto_suggest
              THEN /\ audio_stats' = Some(stats)
                   /\ stdout' = stdout \o suggest_filters(stats)
                   /\ Terminate(0, "none")
                   /\ UNCHANGED filters
              ELSE /\ audio_stats' = Some(stats)
                   /\ filters' = filters \o auto_filters(stats)
                   /\ stdout' = stdout \o
                        (IF args.verbose
                         THEN <<Line("auto-applied",
                                     Join(filters \o auto_filters(stats)))>>
                         ELSE <<>>)
                   /\ pc' = "check_empty"
                   /\ UNCHANGED <<exit, err, tmp>>
       ELSE /\ pc' = "check_empty"
            /\ UNCHANGED <<exit, err, tmp, stdout, filters, audio_stats>>
    /\ UNCHANGED <<installs, args, input_exists, out0, out, made, calls, video_out,
                   unit_in, unit_out>>

\* Lines 209-216.  audio_stats is what analyze_audio returned at line 210
\* (None before that line): the descriptors are drawn when it is called.
AutoMode ==
    /\ pc = "auto"
    /\ IF args.auto_suggest \/ args.auto_apply
       THEN \E stats \in MeasuredStats :
              IF args.auto_suggest
              THEN /\ audio_stats' = Some(stats)
                   /\ stdout' = stdout \o suggest_filters(stats)
                   /\ Terminate(0, "none")
                   /\ UNCHANGED filters
              ELSE /\ audio_stats' = Some(stats)
                   /\ filters' = auto_filters(stats)
                   /\ stdout' = stdout \o
                        (IF args.verbose
                         THEN <<Line("auto-applied", Join(auto_filters(stats)))>>
                         ELSE <<>>)
                   /\ pc' = "check_empty"
                   /\ UNCHANGED <<exit, err, tmp>>
       ELSE /\ pc' = "check_empty"
            /\ UNCHANGED <<exit, err, tmp, stdout, filters, audio_stats>>
    /\ UNCHANGED <<installs, args, input_exists, out0, out, made, calls, video_out,
                   unit_in, unit_out>>

\* A run without the empty-list check.
CheckEmptySkipped ==
    /\ pc = "check_empty"
    /\ pc' = "dry_run"
    /\ UNCHANGED <<installs, args, input_exists, out0, out, filters, tmp,
                   made, calls, exit, err, stdout, video_out, unit_in,
                   unit_out, audio_stats>>

\* Lines 218-220.
CheckEmpty ==
    /\ pc = "check_empty"
    /\ IF filters = <<>>
       THEN /\ Terminate(1, "EmptyFilterChain")
            /\ stdout' = Append(stdout, Line("error", "EmptyFilterChain"))
       ELSE /\ pc' = "dry_run"
            /\ UNCHANGED <<exit, err, tmp, stdout>>
    /\ UNCHANGED <<installs, args, input_exists, out0, out, filters, made,
                   calls, video_out, unit_in, unit_out, audio_stats>>

\* What lines 223-227 print.
PlanLines(f) ==
    <<Line("input", "IN"), Line("output", "OUT"), Line("filters", "")>>
    \o [i \in 1..Len(f) |-> Line("filter", f[i])]

RotationLine(a) ==
    Line("rotation", WholeStr(Rotation(a)[1]) \o " degrees " \o Direction(a))

\* A dry run that prints the plan and then goes on into the pipeline.
DryRunFallsThrough ==
    /\ pc = "dry_run"
    /\ IF args.dry_run
       THEN /\ stdout' = stdout \o PlanLines(filters)
            /\ pc' = "extract_audio"
            /\ UNCHANGED <<exit, err, tmp>>
       ELSE /\ pc' = "extract_audio"
            /\ UNCHANGED <<exit, err, tmp, stdout>>
    /\ UNCHANGED <<installs, args, input_exists, out0, out, filters, made,
                   calls, video_out, unit_in, unit_out, audio_stats>>

\* Lines 222-241.
DryRun ==
    /\ pc = "dry_run"
    /\ IF args.dry_run
       THEN IF RotationConflict(args)
            THEN /\ stdout' = stdout \o PlanLines(filters)
                                \o <<Line("error", "ConflictingRotation")>>
                 /\ Terminate(1, "ConflictingRotation")
            ELSE /\ stdout' = stdout \o PlanLines(filters)
                      \o (IF Rotation(args) # None THEN <<RotationLine(args)>>
                                                   ELSE <<>>)
                 /\ Terminate(0, "none")
       ELSE /\ pc' = "extract_audio"
            /\ UNCHANGED <<exit, err, tmp, stdout>>
    /\ UNCHANGED <<installs, args, input_exists, out0, out, filters, made,
                   calls, video_out, unit_in, unit_out, audio_stats>>

\* ffmpeg_cmd, lines 76-80: what one invocation prints.
FfmpegPrints(a, stage, rc) ==
    (IF a.verbose THEN <<Line("ffmpeg", stage)>> ELSE <<>>)
    \o (IF EngineFatal(rc) THEN <<Line("error", "EngineFailure")>> ELSE <<>>)

\* Lines 243-253: the with block is entered, then the first engine call.
ExtractAudio ==
    /\ pc = "extract_audio"
    /\ \E rc \in ReturnCodes :
         /\ calls' = Append(calls, Call("extract_audio", <<"IN">>, "audio.wav", "", rc))
         /\ stdout' = stdout \o FfmpegPrints(args, "extract_audio", rc)
         /\ IF EngineFatal(rc)
            THEN /\ made' = made \cup {"tmpdir"}
                 /\ ExitWith(1, "EngineFailure", tmp \cup {"tmpdir"})
            ELSE /\ made' = made \cup {"tmpdir", "audio.wav"}
                 /\ tmp' = tmp \cup {"tmpdir", "audio.wav"}
                 /\ pc' = "apply_filters"
                 /\ UNCHANGED <<exit, err>>
    /\ UNCHANGED <<installs, args, input_exists, out0, out, filters,
                   video_out, unit_in, unit_out, audio_stats>>

\* A filter stage that is handed the output path instead of processed.wav.
ApplyFiltersToOutput ==
    /\ pc = "apply_filters"
    /\ \E rc \in ReturnCodes : \E o \in EngineWrites(rc, out) :
         /\ calls' = Append(calls, Call("apply_filters", <<"audio.wav">>,
                                        "OUT", Join(filters), rc))
         /\ stdout' = stdout \o FfmpegPrints(args, "apply_filters", rc)
         /\ out' = o
         /\ IF EngineFatal(rc)
            THEN /\ ExitWith(1, "EngineFailure", tmp)
                 /\ UNCHANGED made
            ELSE /\ made' = made \cup {"processed.wav"}
                 /\ tmp' = tmp \cup {"processed.wav"}
                 /\ pc' = "finalize"
                 /\ UNCHANGED <<exit, err>>
    /\ UNCHANGED <<installs, args, input_exists, out0, filters, video_out,
                   unit_in, unit_out, audio_stats>>

\* Lines 255-258.
ApplyFilters ==
    /\ pc = "apply_filters"
    /\ \E rc \in ReturnCodes :
         /\ calls' = Append(calls, Call("apply_filters", <<"audio.wav">>,
                                        "processed.wav", Join(filters), rc))
         /\ stdout' = stdout \o FfmpegPrints(args, "apply_filters", rc)
         /\ IF EngineFatal(rc)
            THEN /\ ExitWith(1, "EngineFailure", tmp)
                 /\ UNCHANGED made
            ELSE /\ made' = made \cup {"processed.wav"}
                 /\ tmp' = tmp \cup {"processed.wav"}
                 /\ pc' = "finalize"
                 /\ UNCHANGED <<exit, err>>
    /\ UNCHANGED <<installs, args, input_exists, out0, out, filters,
                   video_out, unit_in, unit_out, audio_stats>>

\* An audio-only branch that rejects a doubly specified rotation.
FinalizeAudioChecksRotation ==
    /\ pc = "finalize"
    /\ AudioOnlyBranch(args)
    /\ IF RotationConflict(args)
       THEN /\ stdout' = Append(stdout, Line("error", "ConflictingRotation"))
            /\ ExitWith(1, "ConflictingRotation", tmp)
            /\ UNCHANGED <<calls, out>>
       ELSE IF args.mp3
       THEN \E rc \in ReturnCodes : \E o \in EngineWrites(rc, out) :
              /\ calls' = Append(calls, Call("transcode", <<"processed.wav">>,
                                             "OUT", "", rc))
              /\ stdout' = stdout \o FfmpegPrints(args, "transcode", rc)
              /\ out' = o
              /\ IF EngineFatal(rc)
                 THEN ExitWith(1, "EngineFailure", tmp)
                 ELSE /\ pc' = "report"
                      /\ UNCHANGED <<exit, err, tmp>>
       ELSE /\ out' = "written"
            /\ pc' = "report"
            /\ UNCHANGED <<calls, exit, err, stdout, tmp>>
    /\ UNCHANGED <<installs, args, input_exists, out0, filters, made,
                   video_out, unit_in, unit_out, audio_stats>>

\* Lines 261-268: the audio-only branch.
FinalizeAudio ==
    /\ pc = "finalize"
    /\ AudioOnlyBranch(args)
    /\ IF args.mp3
       THEN \E rc \in ReturnCodes : \E o \in EngineWrites(rc, out) :
              /\ calls' = Append(calls, Call("transcode", <<"processed.wav">>,
                                             "OUT", "", rc))
              /\ stdout' = stdout \o FfmpegPrints(args, "transcode", rc)
              /\ out' = o
              /\ IF EngineFatal(rc)
                 THEN ExitWith(1, "EngineFailure", tmp)
                 ELSE /\ pc' = "report"
                      /\ UNCHANGED <<exit, err, tmp>>
       ELSE /\ out' = "written"
            /\ pc' = "report"
            /\ UNCHANGED <<calls, exit, err, stdout, tmp>>
    /\ UNCHANGED <<installs, args, input_exists, out0, filters, made,
                   video_out, unit_in, unit_out, audio_stats>>

\* Lines 269-272: the reattach branch starts with the video stream copy.
ExtractVideo ==
    /\ pc = "finalize"
    /\ ~AudioOnlyBranch(args)
    /\ \E rc \in ReturnCodes :
         /\ calls' = Append(calls, Call("extract_video", <<"IN">>, "video.mp4", "", rc))
         /\ stdout' = stdout \o FfmpegPrints(args, "extract_video", rc)
         /\ IF EngineFatal(rc)
            THEN /\ ExitWith(1, "EngineFailure", tmp)
                 /\ UNCHANGED made
            ELSE /\ made' = made \cup {"video.mp4"}
                 /\ tmp' = tmp \cup {"video.mp4"}
                 /\ pc' = "rotate"
                 /\ UNCHANGED <<exit, err>>
    /\ UNCHANGED <<installs, args, input_exists, out0, out, filters,
                   video_out, unit_in, unit_out, audio_stats>>

\* A reattach branch that never re-encodes: the copied video goes to the mux.
RotateSkipped ==
    /\ pc = "rotate"
    /\ video_out' = Some("video.mp4")
    /\ pc' = "mux"
    /\ UNCHANGED <<installs, args, input_exists, out0, out, filters, tmp,
                   made, calls, exit, err, stdout, unit_in, unit_out,
                   audio_stats>>

\* Lines 274-298.  get_video_rotation_filter returns None only when float()
\* raises, which it cannot on the float argparse hands over.
Rotate ==
    /\ pc = "rotate"
    /\ IF RotationConflict(args)
       THEN /\ stdout' = Append(stdout, Line("error", "ConflictingRotation"))
            /\ ExitWith(1, "ConflictingRotation", tmp)
            /\ UNCHANGED <<calls, made, video_out>>
       ELSE IF Rotation(args) = None
       THEN /\ video_out' = Some("video.mp4")
            /\ pc' = "mux"
            /\ UNCHANGED <<calls, made, exit, err, stdout, tmp>>
       ELSE LET rot_filter ==
                    get_video_rotation_filter(Rotation(args)[1], Direction(args))
            IN  \E rc \in ReturnCodes :
                  /\ calls' = Append(calls, Call("rotate", <<"video.mp4">>,
                                                 "video_rotated.mp4", rot_filter, rc))
                  /\ stdout' = stdout
                        \o <<RotationTrace(Rotation(args)[1], Direction(args)),
                             Line("rotating", rot_filter)>>
                        \o FfmpegPrints(args, "rotate", rc)
                  /\ IF EngineFatal(rc)
                     THEN /\ ExitWith(1, "EngineFailure", tmp)
                          /\ UNCHANGED <<made, video_out>>
                     ELSE /\ made' = made \cup {"video_rotated.mp4"}
                          /\ tmp' = tmp \cup {"video_rotated.mp4"}
                          /\ video_out' = Some("video_rotated.mp4")
                          /\ pc' = "mux"
                          /\ UNCHANGED <<exit, err>>
    /\ UNCHANGED <<installs, args, input_exists, out0, out, filters, unit_in,
                   unit_out, audio_stats>>

\* Lines 300-304.
Mux ==
    /\ pc = "mux"
    /\ \E rc \in ReturnCodes : \E o \in EngineWrites(rc, out) :
         /\ calls' = Append(calls, Call("mux", <<video_out[1], "processed.wav">>,
                                        "OUT", "-shortest", rc))
         /\ stdout' = stdout \o <<Line("combining", video_out[1])>>
                             \o FfmpegPrints(args, "mux", rc)
         /\ out' = o
         /\ IF EngineFatal(rc)
            THEN ExitWith(1, "EngineFailure", tmp)
            ELSE /\ pc' = "report"
                 /\ UNCHANGED <<exit, err, tmp>>
    /\ UNCHANGED <<installs, args, input_exists, out0, filters, made,
                   video_out, unit_in, unit_out, audio_stats>>

\* Lines 306-319 and the end of the with block.
Report ==
    /\ pc = "report"
    /\ IF args.report
       THEN IF ReportDemux(args)
            THEN \E rc \in ReturnCodes :
                   /\ calls' = Append(calls, Call("report_demux", <<"OUT">>,
                                                  "final_out.wav", "", rc))
                   /\ IF EngineFatal(rc)
                      THEN /\ stdout' = stdout
                                \o <<Line("stats", "Input (Before Processing)")>>
                                \o FfmpegPrints(args, "report_demux", rc)
                           /\ ExitWith(1, "EngineFailure", tmp)
                           /\ UNCHANGED made
                      ELSE /\ stdout' = stdout
                                \o <<Line("stats", "Input (Before Processing)")>>
                                \o FfmpegPrints(args, "report_demux", rc)
                                \o <<Line("analyze", "final_out.wav"),
                                     Line("stats", "Output (After Processing)"),
                                     Line("saved", "OUT")>>
                           /\ made' = made \cup {"final_out.wav"}
                           /\ ExitWith(0, "none", tmp \cup {"final_out.wav"})
            ELSE /\ stdout' = stdout \o
                      <<Line("stats", "Input (Before Processing)"),
                        Line("analyze", "OUT"),
                        Line("stats", "Output (After Processing)"),
                        Line("saved", "OUT")>>
                 /\ ExitWith(0, "none", tmp)
                 /\ UNCHANGED <<calls, made>>
       ELSE /\ stdout' = Append(stdout, Line("saved", "OUT"))
            /\ ExitWith(0, "none", tmp)
            /\ UNCHANGED <<calls, made>>
    /\ UNCHANGED <<installs, args, input_exists, out0, out, filters,
                   video_out, unit_in, unit_out, audio_stats>>

Next ==
    \/ InstallDeps
    \/ Validate
    \/ Classify
    \/ CheckImg
    \/ Plan
    \/ AutoMode
    \/ CheckEmpty
    \/ DryRun
    \/ ExtractAudio
    \/ ApplyFilters
    \/ FinalizeAudio
    \/ ExtractVideo
    \/ Rotate
    \/ Mux
    \/ Report

Spec == Init /\ [][Next]_vars

---------------------------------------------------------------------------
(* The planner fed directly: the same run, started from arguments that did  *)
(* not pass argparse's choices=range(1, 11) for --tame-treble.              *)

TrebleLevels == (-TrebleSlack) .. (TrebleMax + TrebleSlack)

PlannerArgs ==
    {[Defaults EXCEPT !.ext = e, !.overwrite = TRUE, !.all = al, !.eq = q,
                      !.deess = de, !.preset = p, !.tame_treble = t,
                      !.dry_run = d, !.report = r, !.rotate_cw = cw] :
        e \in {".wav", ".mp4"}, al \in BOOLEAN, q \in BOOLEAN, de \in BOOLEAN,
        p \in {None, Some("vocals"), Some("bogus")},
        t \in {None} \cup {Some(l) : l \in TrebleLevels},
        d \in BOOLEAN, r \in BOOLEAN, cw \in {None, Some(Float(90))}}

InitPlanner ==
    /\ args \in PlannerArgs \cup InstallArgs
    /\ input_exists = TRUE
    /\ out0 \in {"absent", "old"}
    /\ out = out0
    /\ pc = "validate"
    /\ filters = <<>>
    /\ tmp = {}
    /\ made = {}
    /\ calls = <<>>
    /\ exit = -1
    /\ err = "none"
    /\ stdout = <<>>
    /\ video_out = None
    /\ unit_in = None
    /\ unit_out = None
    /\ installs = <<>>
    /\ audio_stats = None

SpecPlanner == InitPlanner /\ [][Next]_vars

---------------------------------------------------------------------------
(* The planner over its whole input space: every combination of --all and   *)
(* the seven flags, every treble level of the command line, every preset    *)
(* name; and the automatic modes over the same flag combinations.           *)

PresetNames == {"vocals", "inst", "music", "podcast"}

\* Dry runs on a .wav input without an automatic mode.
FlagArgs ==
    {[Defaults EXCEPT !.overwrite = TRUE, !.dry_run = TRUE,
                      !.all = al, !.normalize = n, !.normalize_extra = ne,
                      !.compress = c, !.compress_extra = ce, !.eq = q,
                      !.eq_extra = qe, !.deess = de, !.tame_treble = t,
                      !.preset = p] :
        al \in BOOLEAN, n \in BOOLEAN, ne \in BOOLEAN, c \in BOOLEAN,
        ce \in BOOLEAN, q \in BOOLEAN, qe \in BOOLEAN, de \in BOOLEAN,
        t \in {None} \cup {Some(l) : l \in TrebleMin .. TrebleMax},
        p \in {None, Some("")} \cup {Some(nm) : nm \in PresetNames \cup {"bogus"}}}

\* Runs with --auto-suggest, --auto-apply or both on a video input; the
\* runs with --auto-apply alone are dry runs.
AutoArgs ==
    {[Defaults EXCEPT !.ext = ".mp4", !.overwrite = TRUE,
                      !.all = al, !.normalize = n, !.normalize_extra = ne,
                      !.compress = c, !.compress_extra = ce, !.eq = q,
                      !.eq_extra = qe, !.deess = de, !.tame_treble = t,
                      !.preset = p, !.auto_suggest = m[1], !.auto_apply = m[2],
                      !.dry_run = ~m[1]] :
        al \in BOOLEAN, n \in BOOLEAN, ne \in BOOLEAN, c \in BOOLEAN,
        ce \in BOOLEAN, q \in BOOLEAN, qe \in BOOLEAN, de \in BOOLEAN,
        t \in {None, Some(3), Some(TrebleMax)},
        p \in {None, Some("inst"), Some("bogus")},
        m \in {<<TRUE, FALSE>>, <<TRUE, TRUE>>, <<FALSE, TRUE>>}}

InitFlags ==
    /\ args \in FlagArgs \cup AutoArgs \cup PipelineArgs \cup InstallArgs
    /\ input_exists = TRUE
    /\ out0 \in {"absent", "old"}
    /\ out = out0
    /\ pc = "validate"
    /\ filters = <<>>
    /\ tmp = {}
    /\ made = {}
    /\ calls = <<>>
    /\ exit = -1
    /\ err = "none"
    /\ stdout = <<>>
    /\ video_out = None
    /\ unit_in = None
    /\ unit_out = None
    /\ installs = <<>>
    /\ audio_stats = None

SpecFlags == InitFlags /\ [][Next]_vars

---------------------------------------------------------------------------
(* The rotation mapper on its own: get_video_rotation_filter applied to a   *)
(* degree value and a direction.                                            *)

Degs == {Float(15 * k) : k \in (-MaxDegSteps) .. MaxDegSteps}
          \cup {Negated(Float(0))}

InitRotation ==
    /\ args = Defaults
    /\ input_exists = TRUE
    /\ out0 = "absent"
    /\ out = out0
    /\ pc = "unit"
    /\ filters = <<>>
    /\ tmp = {}
    /\ made = {}
    /\ calls = <<>>
    /\ exit = -1
    /\ err = "none"
    /\ stdout = <<>>
    /\ video_out = None
    /\ unit_in \in [degrees : Degs, direction : {"cw", "ccw"}]
    /\ unit_out = None
    /\ installs = <<>>
    /\ audio_stats = None

MapRotation ==
    /\ pc = "unit"
    /\ unit_out' = Some(get_video_rotation_filter(unit_in.degrees, unit_in.direction))
    /\ stdout' = Append(stdout, RotationTrace(unit_in.degrees, unit_in.direction))
    /\ pc' = "unit_done"
    /\ UNCHANGED <<installs, args, input_exists, out0, out, filters, tmp,
                   made, calls, exit, err, video_out, unit_in, audio_stats>>

SpecRotation == InitRotation /\ [][MapRotation]_vars

---------------------------------------------------------------------------
(* The classifier on its own: classify_content applied to a descriptor      *)
(* triple.                                                                  *)

InitAnalysis ==
    /\ args = Defaults
    /\ input_exists = TRUE
    /\ out0 = "absent"
    /\ out = out0
    /\ pc = "unit"
    /\ filters = <<>>
    /\ tmp = {}
    /\ made = {}
    /\ calls = <<>>
    /\ exit = -1
    /\ err = "none"
    /\ stdout = <<>>
    /\ video_out = None
    /\ unit_in \in StatsSpace
    /\ unit_out = None
    /\ installs = <<>>
    /\ audio_stats = None

ApplyClassify ==
    /\ pc = "unit"
    /\ unit_out' = Some(classify_content(unit_in))
    /\ pc' = "unit_done"
    /\ UNCHANGED <<installs, args, input_exists, out0, out, filters, tmp,
                   made, calls, exit, err, stdout, video_out, unit_in,
                   audio_stats>>

SpecClassify == InitAnalysis /\ [][ApplyClassify]_vars

\* auto_filters on its own, applied to a descriptor triple.
ApplyAutoFilters ==
    /\ pc = "unit"
    /\ unit_out' = Some(auto_filters(unit_in))
    /\ pc' = "unit_done"
    /\ UNCHANGED <<installs, args, input_exists, out0, out, filters, tmp,
                   made, calls, exit, err, stdout, video_out, unit_in,
                   audio_stats>>

SpecAutoFilters == InitAnalysis /\ [][ApplyAutoFilters]_vars

---------------------------------------------------------------------------
(* Properties of a run.                                                     *)

ValidationErrors ==
    {"InputNotFound", "UnsupportedFormat", "OutputExists", "ConflictingRotation"}

\* Lines 117-156 let the run through: no request to install the
\* dependencies, the input exists with a supported extension, the output
\* path is free or may be overwritten, no classify request, and an image, if
\* given, exists and goes with an audio input.
PassesChecks ==
    /\ ~args.install_deps /\ ~args.install_deps_full
    /\ input_exists
    /\ Lower(args.ext) \in allowed_ext
    /\ (out0 = "absent" \/ args.overwrite)
    /\ ~args.classify
    /\ (args.img \in {None, Some("")}
        \/ (ImgExists(args.img[1]) /\ Lower(args.ext) \in {".mp3", ".wav", ".flac"}))

\* The run went through the planner (lines 158-207) and past it.
PastPlan ==
    /\ PassesChecks
    /\ pc \notin {"validate", "classify", "img", "plan"}

\* The run reached the empty-list check of line 218.
ReachedCheck ==
    /\ PastPlan
    /\ pc # "auto"
    /\ ~args.auto_suggest
    /\ err # "InvalidTrebleLevel"

Last(s) == s[Len(s)]

Stages == {calls[i].stage : i \in 1..Len(calls)}

\* The filter lines of the printed plan, in the order printed.
RECURSIVE PrintedFilters(_)
PrintedFilters(lines) ==
    IF lines = <<>> THEN <<>>
    ELSE IF Head(lines).tag = "filter"
    THEN <<Head(lines).text>> \o PrintedFilters(Tail(lines))
    ELSE PrintedFilters(Tail(lines))

\* C1: every validation failure (input not found, unsupported extension,
\* output exists without overwrite, both rotation directions supplied) ends
\* the run before the first engine invocation and before any temporary
\* artifact exists; once artifacts exist, only an engine failure ends the
\* run with an error.
C1_ValidationBeforeSideEffects ==
    pc = "done" =>
      /\ (err \in ValidationErrors => calls = <<>> /\ made = {})
      /\ (made # {} /\ exit # 0 => err = "EngineFailure")

\* The output is to be audio only: --no-vid, --mp3, or an audio input.
C2_WantsAudioOnly ==
    args.no_vid \/ args.mp3 \/ Lower(args.ext) \in {".wav", ".flac"}

\* C2: after ApplyFilters succeeded, the audio-only finalization is taken
\* whenever --no-vid or --mp3 is set or the input is .wav or .flac, and the
\* reattach stages (extract video, rotate, mux) only when none of the three
\* holds.
C2_AudioOnlyFinalization ==
    /\ (Stages \cap {"extract_video", "rotate", "mux"} # {} => ~C2_WantsAudioOnly)
    /\ (pc \in {"rotate", "mux"} => ~C2_WantsAudioOnly)
    /\ ("transcode" \in Stages => C2_WantsAudioOnly)

\* C3: when the run has terminated, on whatever path (normal completion, an
\* engine failure at any stage, the rotation error of line 279), no
\* temporary artifact is left.
C3_TempRemoved == pc = "done" => tmp = {}

C3_Witness ==
    /\ pc = "done"
    /\ err = "EngineFailure"
    /\ Last(calls).stage = "report_demux"
    /\ {"tmpdir", "audio.wav", "processed.wav", "video.mp4",
        "video_rotated.mp4"} \subseteq made

\* C4: a non-zero return code of any engine invocation is the last thing the
\* engine is asked in the run (no further invocation, no retry) and the run
\* ends with a non-zero status; a run that exits 0 saw only zero codes.
C4_EngineFailureFatal ==
    /\ \A i \in 1..Len(calls) :
         calls[i].rc # 0 => i = Len(calls) /\ pc = "done" /\ exit = 1
    /\ (exit = 0 => \A i \in 1..Len(calls) : calls[i].rc = 0)

C4_Witness ==
    /\ pc = "done"
    /\ exit = 1
    /\ Len(calls) = 5
    /\ Last(calls).stage = "mux"
    /\ Last(calls).rc # 0

\* C5: when the final mux or the audio transcode fails, the output path is
\* as it was before the run: not created, not replaced by a partial file.
C5_OutputIntactOnFailure ==
    (pc = "done" /\ calls # <<>> /\ Last(calls).stage \in {"mux", "transcode"}
       /\ Last(calls).rc # 0)
    => out = out0

\* A dry run that passes every check and resolves a non-empty chain.
C6_Case ==
    /\ args.dry_run
    /\ PassesChecks
    /\ ~RotationConflict(args)
    /\ ~args.auto_suggest
    /\ ~(TrebleRequested(args) /\ TrebleInvalid(args.tame_treble[1]))
    /\ (args.auto_apply \/ PlannedChain(args) # <<>>)

\* C6: a dry run that passes the checks with a non-empty chain prints the
\* plan (input, output, the filters in chain order, the rotation if any),
\* exits 0 and neither invokes the engine nor creates a temporary artifact
\* nor touches the output path.  (No run with --dry-run, whatever else is
\* requested, invokes the engine or creates a file.)
C6_DryRun ==
    /\ (args.dry_run => calls = <<>> /\ made = {} /\ tmp = {} /\ out = out0)
    /\ C6_Case =>
      /\ pc \in {"validate", "classify", "img", "plan", "auto", "check_empty",
                 "dry_run", "done"}
      /\ (pc = "done" =>
            /\ exit = 0
            /\ filters # <<>>
            /\ (~args.auto_apply => filters = PlannedChain(args))
            /\ stdout = (IF args.auto_apply /\ args.verbose
                         THEN <<Line("auto-applied", Join(filters))>> ELSE <<>>)
                        \o <<Line("input", "IN"), Line("output", "OUT"),
                             Line("filters", "")>>
                        \o [i \in 1..Len(filters) |-> Line("filter", filters[i])]
                        \o (IF Rotation(args) = None THEN <<>>
                            ELSE <<RotationLine(args)>>))

C6_Witness ==
    /\ pc = "done"
    /\ C6_Case
    /\ Rotation(args) # None
    /\ Len(filters) >= 2
    /\ out0 = "old"

\* The dry run of `in.wav --eq --normalize-extra --dry-run`.
C7_Case ==
    /\ args.eq /\ args.normalize_extra
    /\ ~args.all /\ ~args.normalize /\ ~args.compress /\ ~args.compress_extra
    /\ ~args.eq_extra /\ ~args.deess
    /\ args.tame_treble = None /\ args.preset = None
    /\ ~args.auto_suggest /\ ~args.auto_apply
    /\ args.dry_run /\ args.ext = ".wav" /\ PassesChecks
    /\ ~RotationConflict(args)

\* C7 (as stated): a dry run with exactly --eq and --normalize-extra on a
\* valid .wav input prints the chain highpass, lowpass, loudnorm and creates
\* no file.
C7_EqFirst ==
    (pc = "done" /\ C7_Case) =>
      /\ PrintedFilters(stdout) =
           <<"highpass=f=80", "lowpass=f=12000", "loudnorm=I=-14:TP=-1.5:LRA=11">>
      /\ made = {} /\ out = out0

\* C7 (amended): that dry run prints the chain loudnorm, highpass, lowpass
\* (the flag blocks append in the order normalize, normalize-extra,
\* compress, compress-extra, eq, eq-extra, de-ess) and creates no file.
C7_NormalizeFirst ==
    (pc = "done" /\ C7_Case) =>
      /\ PrintedFilters(stdout) =
           <<"loudnorm=I=-14:TP=-1.5:LRA=11", "highpass=f=80", "lowpass=f=12000">>
      /\ exit = 0 /\ calls = <<>> /\ made = {} /\ out = out0

C7_Witness == pc = "done" /\ C7_Case /\ exit = 0 /\ Len(stdout) = 6

\* C9: a treble level outside 1..10 that reaches the planner, 0 and the
\* negative levels included, ends the run with InvalidTrebleLevel and a
\* non-zero status; it is never skipped and never applied.
C9_TrebleOutOfRangeFatal ==
    (PastPlan /\ args.tame_treble # None /\ TrebleInvalid(args.tame_treble[1]))
    => (pc = "done" /\ err = "InvalidTrebleLevel" /\ exit = 1 /\ calls = <<>>)

\* C10: a chain that is empty after the planning rules (with no flag at all,
\* or an unrecognized preset name and no flag) ends the run with
\* EmptyFilterChain and status 1 before any engine invocation; the pipeline
\* never runs with an empty chain and such a run never exits 0.
C10_EmptyChainFatal ==
    /\ (ReachedCheck /\ filters = <<>>) =>
          \/ pc = "check_empty"
          \/ (pc = "done" /\ err = "EmptyFilterChain" /\ exit = 1
                /\ calls = <<>> /\ made = {} /\ out = out0)
    /\ (calls # <<>> => filters # <<>>)
    /\ (pc = "done" /\ PassesChecks /\ ~args.auto_suggest /\ ~args.auto_apply
          /\ ~(TrebleRequested(args) /\ TrebleInvalid(args.tame_treble[1]))
          /\ PlannedChain(args) = <<>>)
       => (err = "EmptyFilterChain" /\ exit = 1)

C10_Witness ==
    /\ pc = "done"
    /\ err = "EmptyFilterChain"
    /\ args.preset = Some("bogus")
    /\ FlagChain(args) = <<>>

\* The stages of the engine invocations so far, in order.
StageSeq == [i \in 1..Len(calls) |-> calls[i].stage]

\* The order of the stages of a complete run with arguments a.
C15_FullOrder(a) ==
    IF a.no_vid \/ Lower(a.ext) = ".wav"
    THEN <<"extract_audio", "apply_filters">>
         \o (IF a.mp3 THEN <<"transcode">> ELSE <<>>)
    ELSE <<"extract_audio", "apply_filters", "extract_video">>
         \o (IF a.rotate_cw # None \/ a.rotate_ccw # None THEN <<"rotate">> ELSE <<>>)
         \o <<"mux">>
         \o (IF a.report /\ ~a.mp3 THEN <<"report_demux">> ELSE <<>>)

\* The run is in the pipeline: it passed the checks with a non-empty chain
\* and is not a dry run.
C15_InPipeline ==
    pc \in {"extract_audio", "apply_filters", "finalize", "rotate", "mux", "report"}

\* C15: in a run that passes validation with a non-empty chain and is not a
\* dry run, the engine is invoked in a fixed order: extract audio first
\* (whatever the input), then apply filters once with the whole chain joined
\* in chain order, then on the reattach path the stream copy of the video,
\* the rotate re-encode exactly when a rotation was requested, and the mux
\* with -shortest; every invocation but the last returned zero, no stage is
\* invoked twice, and a run that ends with status 0 went through all of them.
C15_StageOrder ==
    /\ Len(StageSeq) <= Len(C15_FullOrder(args))
    /\ \A i \in 1..Len(calls) :
          /\ StageSeq[i] = C15_FullOrder(args)[i]
          /\ (i < Len(calls) => calls[i].rc = 0)
          /\ \A j \in 1..Len(calls) : StageSeq[i] = StageSeq[j] => i = j
          /\ (StageSeq[i] = "extract_audio" =>
                 calls[i].src = <<"IN">> /\ calls[i].dst = "audio.wav")
          /\ (StageSeq[i] = "apply_filters" =>
                 /\ calls[i].src = <<"audio.wav">> /\ calls[i].dst = "processed.wav"
                 /\ calls[i].vf = Join(filters) /\ filters # <<>>)
          /\ (StageSeq[i] = "extract_video" =>
                 calls[i].src = <<"IN">> /\ calls[i].dst = "video.mp4")
          /\ (StageSeq[i] = "rotate" =>
                 calls[i].src = <<"video.mp4">> /\ calls[i].dst = "video_rotated.mp4")
          /\ (StageSeq[i] = "mux" =>
                 /\ calls[i].vf = "-shortest" /\ calls[i].dst = "OUT"
                 /\ calls[i].src =
                      <<(IF Rotation(args) # None THEN "video_rotated.mp4"
                                                  ELSE "video.mp4"),
                        "processed.wav">>)
    /\ (C15_InPipeline /\ pc # "extract_audio" => calls # <<>>)
    /\ (calls # <<>> => ~args.dry_run /\ PassesChecks)
    /\ (pc = "done" /\ exit = 0 /\ calls # <<>> => StageSeq = C15_FullOrder(args))

C15_Witness ==
    /\ pc = "done" /\ exit = 0
    /\ args.preset = Some("podcast") /\ args.ext = ".mp4"
    /\ args.rotate_cw = Some(Float(45)) /\ ~args.report
    /\ StageSeq = <<"extract_audio", "apply_filters", "extract_video", "rotate", "mux">>
    /\ calls[2].vf = "highpass=f=100,lowpass=f=8000,loudnorm=I=-16:TP=-2:LRA=10"
    /\ calls[4].vf = "rotate=0.7853981633974483:bilinear=1"
    /\ calls[5].src = <<"video_rotated.mp4", "processed.wav">>
    /\ \A i \in 1..5 : calls[i].rc = 0

\* The files the report analyzed, in the order analyzed.
RECURSIVE AnalyzedFiles(_)
AnalyzedFiles(lines) ==
    IF lines = <<>> THEN <<>>
    ELSE IF Head(lines).tag = "analyze"
    THEN <<Head(lines).text>> \o AnalyzedFiles(Tail(lines))
    ELSE AnalyzedFiles(Tail(lines))

\* A run with --report that finalized its output and ended with status 0.
C22_Case ==
    /\ pc = "done" /\ exit = 0
    /\ args.report /\ ~args.dry_run
    /\ calls # <<>>

\* C22: when a report is requested and finalization succeeded, the report
\* runs after the output has been written, and the output's descriptors
\* are computed from audio demuxed out of the output by one more engine
\* invocation exactly when the mux produced the output, and from the
\* output file itself exactly when the audio-only branch produced it.
C22_ReportSource ==
    /\ (pc = "report" => out = "written")
    /\ ("report_demux" \in Stages => out = "written" /\ args.report)
    /\ C22_Case =>
          /\ out = "written"
          /\ ("report_demux" \in Stages <=> "mux" \in Stages)
          /\ (AnalyzedFiles(stdout) = <<"final_out.wav">> <=> "mux" \in Stages)
          /\ (AnalyzedFiles(stdout) = <<"OUT">> <=> "mux" \notin Stages)

\* What holds of the report: the output is demuxed exactly when it came
\* from the mux and --mp3 was not given.
C22_ReportSourceUnlessMp3 ==
    /\ (pc = "report" => out = "written")
    /\ C22_Case =>
          /\ ("report_demux" \in Stages <=> "mux" \in Stages /\ ~args.mp3)
          /\ (AnalyzedFiles(stdout) = <<"final_out.wav">>
                <=> "mux" \in Stages /\ ~args.mp3)

\* Exactly one of --rotate-cw and --rotate-ccw was given.
OneDirection == (args.rotate_cw # None) # (args.rotate_ccw # None)

\* The invocation of the given stage, when the run made one.
CallOf(stage) == calls[CHOOSE i \in 1..Len(calls) : calls[i].stage = stage]

\* The run got past the video stream copy of the reattach branch and past
\* the rotation block of lines 275-298.
C23_PastRotation ==
    /\ "extract_video" \in Stages
    /\ CallOf("extract_video").rc = 0
    /\ pc # "rotate"

\* C23: the rotate re-encode is invoked exactly in the runs on the reattach
\* branch with exactly one rotation direction; the mux then takes the
\* rotated video, and the stream-copied video when no rotation was given.
\* On the audio-only branch a rotation request, also one with both
\* directions, causes neither a rotate invocation nor an error.
C23_RotateIffRequested ==
    /\ ("rotate" \in Stages => ~AudioOnlyBranch(args) /\ OneDirection)
    /\ (C23_PastRotation /\ OneDirection =>
          /\ "rotate" \in Stages
          /\ CallOf("rotate").vf =
                get_video_rotation_filter(Rotation(args)[1], Direction(args)))
    /\ (C23_PastRotation /\ ~OneDirection => "rotate" \notin Stages)
    /\ ("mux" \in Stages =>
          /\ ~RotationConflict(args)
          /\ CallOf("mux").src[1] =
                (IF OneDirection THEN "video_rotated.mp4" ELSE "video.mp4")
          /\ (OneDirection => CallOf("rotate").rc = 0))
    /\ (AudioOnlyBranch(args) /\ ~args.dry_run =>
          /\ "rotate" \notin Stages
          /\ err # "ConflictingRotation"
          /\ (pc = "done" /\ exit # 0 /\ PassesChecks /\ filters # <<>>
                => err = "EngineFailure"))

C23_Witness ==
    /\ pc = "done" /\ exit = 0
    /\ args.ext = ".mp4" /\ ~args.no_vid
    /\ args.rotate_cw = None /\ args.rotate_ccw = Some(Float(90))
    /\ StageSeq = <<"extract_audio", "apply_filters", "extract_video", "rotate", "mux">>
    /\ CallOf("rotate").vf = "transpose=2"
    /\ CallOf("mux").src = <<"video_rotated.mp4", "processed.wav">>

\* An audio-only run given both directions ends with status 0.
C23_WitnessAudioOnly ==
    /\ pc = "done" /\ exit = 0
    /\ AudioOnlyBranch(args) /\ RotationConflict(args)
    /\ args.ext = ".mp4" /\ args.no_vid
    /\ out = "written"
    /\ StageSeq = <<"extract_audio", "apply_filters">>

\* The errors raised before the with block.
EarlyErrors ==
    {"InputNotFound", "UnsupportedFormat", "OutputExists", "ImageNotFound",
     "ImageNeedsAudio", "InvalidTrebleLevel", "EmptyFilterChain"}

\* The run ended in one of the ways that come before the finalization:
\* a validation error, --classify, --auto-suggest, the empty-chain error, a
\* dry run, or a failed extract audio, apply filters, extract video or
\* rotate.
C24_EndsBeforeFinalize ==
    /\ pc = "done"
    /\ \/ err \in EarlyErrors \cup {"ConflictingRotation"}
       \/ (calls = <<>> /\ exit = 0)
       \/ (err = "EngineFailure"
             /\ Last(calls).stage \in {"extract_audio", "apply_filters",
                                       "extract_video", "rotate"})

\* C24: the output path is written in the finalization only: a run that
\* ends in a validation error, in --classify, in --auto-suggest, in the
\* empty-chain error, in a dry run or in an engine failure of extract audio,
\* apply filters, extract video or rotate leaves the output path as it was;
\* whenever the path differs from what it was, the mux, the mp3 transcode
\* or the copy of line 268 has run.
C24_OutputWrittenInFinalizeOnly ==
    /\ (C24_EndsBeforeFinalize => out = out0)
    /\ (pc \in {"validate", "classify", "img", "plan", "auto", "check_empty",
                 "dry_run", "extract_audio", "apply_filters", "finalize",
                 "rotate", "mux"} => out = out0)
    /\ (out # out0 =>
          \/ "mux" \in Stages
          \/ "transcode" \in Stages
          \/ (AudioOnlyBranch(args) /\ ~args.mp3 /\ Len(calls) >= 2
                /\ calls[2].rc = 0))

C24_Witness ==
    /\ C24_EndsBeforeFinalize
    /\ err = "EngineFailure"
    /\ Last(calls).stage = "rotate"
    /\ Len(calls) = 4
    /\ out0 = "old" /\ out = "old"
    /\ args.overwrite

---------------------------------------------------------------------------
(* Properties of the planner and of the automatic modes.                    *)

\* The run planned its chain without an automatic mode.
PlannedOnly ==
    /\ PastPlan
    /\ ~args.auto_suggest /\ ~args.auto_apply
    /\ ~(TrebleRequested(args) /\ TrebleInvalid(args.tame_treble[1]))

\* What the flags and the treble level accumulate (lines 158-194).
Accumulated(a) ==
    FlagChain(a) \o (IF TrebleRequested(a) THEN TrebleChain(a.tame_treble[1])
                                            ELSE <<>>)

\* The fixed sequence of each recognized preset name.
C11_Fixed(name) ==
    CASE name = "vocals" ->
           <<"highpass=f=80", "lowpass=f=12000", "deesser",
             "loudnorm=I=-14:TP=-1.5:LRA=11">>
      [] name = "inst" ->
           <<"highpass=f=60", "lowpass=f=16000", "loudnorm=I=-14:TP=-1.5:LRA=11">>
      [] name = "music" ->
           <<"highpass=f=80", "lowpass=f=14000",
             "acompressor=threshold=-18dB:ratio=3:attack=20:release=250",
             "loudnorm=I=-14:TP=-1.5:LRA=11">>
      [] name = "podcast" ->
           <<"highpass=f=100", "lowpass=f=8000", "loudnorm=I=-16:TP=-2:LRA=10">>

\* C11: without an automatic mode, for every combination of --all, the
\* flags and the treble level, a recognized preset name makes the chain
\* exactly that preset's fixed sequence (nothing of the accumulated list is
\* carried over: its length is the preset's, and a fragment the preset does
\* not list itself is not in it), and an unrecognized name leaves the chain
\* accumulated from the flags as it was.
C11_PresetReplaces ==
    (PlannedOnly /\ args.preset # None) =>
      IF args.preset[1] \in PresetNames
      THEN /\ filters = C11_Fixed(args.preset[1])
           /\ Len(filters) = Len(C11_Fixed(args.preset[1]))
           /\ \A x \in Range(Accumulated(args)) :
                 x \notin Range(C11_Fixed(args.preset[1])) => x \notin Range(filters)
      ELSE filters = Accumulated(args)

C11_Witness ==
    /\ pc = "done" /\ exit = 0 /\ PlannedOnly
    /\ args.preset = Some("podcast")
    /\ args.all /\ args.normalize /\ args.compress_extra /\ args.eq_extra
    /\ args.deess /\ args.tame_treble = Some(TrebleMax)
    /\ Len(Accumulated(args)) = 11
    /\ filters = <<"highpass=f=100", "lowpass=f=8000", "loudnorm=I=-16:TP=-2:LRA=10">>

\* An unrecognized name with flags: the accumulated chain survives.
C11_WitnessUnrecognized ==
    /\ pc = "done" /\ exit = 0 /\ PlannedOnly
    /\ args.preset = Some("bogus")
    /\ filters = <<"dynaudnorm", "deesser">>

\* The run planned its chain from the flags alone: no automatic mode and
\* no recognized preset name.
FlagsOnly ==
    /\ PlannedOnly
    /\ (args.preset = None \/ args.preset[1] \notin PresetNames)

\* How often x occurs in the list f; a flag counts 1 when it is set.
Count(f, x) == Cardinality({i \in 1..Len(f) : f[i] = x})
B(flag) == IF flag THEN 1 ELSE 0

\* The number of fragments the treble level appends.
C18_TrebleCount ==
    IF args.tame_treble = None THEN 0
    ELSE IF args.tame_treble[1] < 6 THEN 2 ELSE 3

\* C18: --all seeds the chain with highpass, lowpass, compressor, loudnorm
\* in that order, and each of the flags normalize, normalize-extra,
\* compress, compress-extra, eq, eq-extra, de-ess appends its fragment(s)
\* after what is there, nothing being removed or de-duplicated; --all with
\* --normalize-extra gives the four fragments and a second loudnorm, five
\* in all.
C18_AllSeedsFlagsAppend ==
    FlagsOnly =>
      /\ Len(filters) = 4 * B(args.all) + B(args.normalize) + B(args.normalize_extra)
                          + B(args.compress) + B(args.compress_extra)
                          + 2 * B(args.eq) + B(args.eq_extra) + B(args.deess)
                          + C18_TrebleCount
      /\ (args.all =>
            SubSeq(filters, 1, 4) =
              <<"highpass=f=80", "lowpass=f=12000",
                "acompressor=threshold=-18dB:ratio=3:attack=20:release=250",
                "loudnorm=I=-14:TP=-1.5:LRA=11">>)
      /\ Count(filters, "highpass=f=80") = B(args.all) + B(args.eq)
      /\ Count(filters, "lowpass=f=12000") = B(args.all) + B(args.eq)
      /\ Count(filters, "acompressor=threshold=-18dB:ratio=3:attack=20:release=250")
            = B(args.all) + B(args.compress)
      /\ Count(filters, "loudnorm=I=-14:TP=-1.5:LRA=11")
            = B(args.all) + B(args.normalize_extra)
      /\ Count(filters, "dynaudnorm") = B(args.normalize)
      /\ Count(filters, "acompressor=threshold=-24dB:ratio=6:attack=5:release=100")
            = B(args.compress_extra)
      /\ Count(filters, "equalizer=f=2000:t=q:w=1:g=3") = B(args.eq_extra)
      /\ Count(filters, "deesser") = B(args.deess)
      /\ (args.deess => filters[Len(filters) - C18_TrebleCount] = "deesser")

C18_Witness ==
    /\ pc = "done" /\ exit = 0 /\ FlagsOnly
    /\ args.all /\ args.normalize_extra
    /\ ~args.normalize /\ ~args.compress /\ ~args.compress_extra
    /\ ~args.eq /\ ~args.eq_extra /\ ~args.deess /\ args.tame_treble = None
    /\ Len(filters) = 5
    /\ filters = <<"highpass=f=80", "lowpass=f=12000",
                   "acompressor=threshold=-18dB:ratio=3:attack=20:release=250",
                   "loudnorm=I=-14:TP=-1.5:LRA=11",
                   "loudnorm=I=-14:TP=-1.5:LRA=11">>

\* A run whose chain ends with the fragments of a treble level.
C19_Case == FlagsOnly /\ args.tame_treble # None

\* The fragments after those of the flags.
C19_Tail == SubSeq(filters, Len(FlagChain(args)) + 1, Len(filters))

\* str() of the float -h/100, for h > 0 hundredths: "-4.5", "-5.25", "-6.0".
C19_ExactStr(h) ==
    "-" \o NatStr(h \div 100) \o "." \o Digit((h % 100) \div 10)
        \o (IF h % 10 = 0 THEN "" ELSE Digit(h % 10))

\* C19 (as stated): for every level in 1..10 the planner appends the 6 kHz
\* and 10 kHz fragments, and the 14 kHz fragment when the level is 6 or
\* more, with gains of exactly -1, -1.5 and -0.75 times the level.
C19_ExactGains ==
    C19_Case =>
      LET level == args.tame_treble[1]
      IN  C19_Tail =
            <<"equalizer=f=6000:t=q:w=1.5:g=" \o IntStr(-level),
              "equalizer=f=10000:t=q:w=1.5:g=" \o C19_ExactStr(150 * level)>>
            \o (IF level >= 6
                THEN <<"equalizer=f=14000:t=q:w=1.2:g=" \o C19_ExactStr(75 * level)>>
                ELSE <<>>)

\* The 14 kHz gain of each level from 6 on, in tenths of a dB.
C19_G14000(level) ==
    CASE level = 6 -> -45 [] level = 7 -> -52 [] level = 8 -> -60
      [] level = 9 -> -68 [] level = 10 -> -75

\* C19 (amended): for every level in 1..10 the planner appends the 6 kHz
\* and 10 kHz fragments, and the 14 kHz fragment when the level is 6 or
\* more; the gains are -1 and -1.5 times the level and -0.75 times the
\* level rounded to one decimal, the half to even (-5.2 at level 7, -6.8 at
\* level 9); each cut is strictly steeper at each higher level.
C19_RoundedGains ==
    /\ C19_Case =>
          LET level == args.tame_treble[1]
          IN  /\ level \in 1..10
              /\ Len(C19_Tail) = (IF level < 6 THEN 2 ELSE 3)
              /\ C19_Tail =
                    <<"equalizer=f=6000:t=q:w=1.5:g=" \o IntStr(-level),
                      "equalizer=f=10000:t=q:w=1.5:g=" \o TenthsStr(-15 * level)>>
                    \o (IF level >= 6
                        THEN <<"equalizer=f=14000:t=q:w=1.2:g="
                                 \o TenthsStr(C19_G14000(level))>>
                        ELSE <<>>)
    /\ \A l \in 6..9 : C19_G14000(l + 1) < C19_G14000(l)
    /\ \A l \in 6..10 :
          /\ 100 * C19_G14000(l) + 750 * l <= 50
          /\ 100 * C19_G14000(l) + 750 * l >= -50

C19_Witness ==
    /\ pc = "done" /\ exit = 0 /\ C19_Case
    /\ args.tame_treble = Some(7)
    /\ args.eq
    /\ C19_Tail = <<"equalizer=f=6000:t=q:w=1.5:g=-7",
                    "equalizer=f=10000:t=q:w=1.5:g=-10.5",
                    "equalizer=f=14000:t=q:w=1.2:g=-5.2">>

\* A run with --auto-suggest that gets through lines 124-207.
C16_Case ==
    /\ args.auto_suggest
    /\ PassesChecks
    /\ ~(TrebleRequested(args) /\ TrebleInvalid(args.tame_treble[1]))

\* C16: with --auto-suggest, whatever the other flags, the preset and
\* --auto-apply, the run prints the advisory text and stops: it ends with
\* status 0 without an engine invocation, a temporary artifact or a write to
\* the output path, also when the chain of the other flags is empty.
C16_SuggestStops ==
    /\ (args.auto_suggest =>
          calls = <<>> /\ made = {} /\ tmp = {} /\ out = out0)
    /\ C16_Case =>
          /\ pc \in {"validate", "classify", "img", "plan", "auto", "done"}
          /\ (pc = "done" =>
                /\ exit = 0 /\ err = "none"
                /\ filters = PlannedChain(args)
                /\ \E s \in StatsSpace : stdout = suggest_filters(s))

C16_Witness ==
    /\ pc = "done" /\ exit = 0
    /\ C16_Case /\ args.auto_apply /\ ~args.dry_run
    /\ filters = <<>>
    /\ Len(stdout) = 7
    /\ stdout[1] = Line("analysis", "# Smart-AF Auto Analysis:")
    /\ stdout[7] = Line("flag", "--deess")

\* A run with --auto-apply and without --auto-suggest, past line 216.
C17_Case ==
    /\ args.auto_apply /\ ~args.auto_suggest
    /\ PastPlan /\ pc # "auto"
    /\ ~(TrebleRequested(args) /\ TrebleInvalid(args.tame_treble[1]))

\* C17: with --auto-apply and without --auto-suggest the chain is the
\* descriptor-driven plan of the descriptors this run has measured: it is
\* auto_filters of audio_stats and of nothing else, so --all, the flags, the
\* treble level and the preset name have no part in it, and two runs with
\* equal descriptors have the same chain whatever their flags and presets
\* are.  A dry run prints that chain.
C17_AutoReplaces ==
    C17_Case =>
      /\ audio_stats # None
      /\ filters = auto_filters(audio_stats[1])
      /\ (pc = "done" /\ exit = 0 /\ args.dry_run =>
            PrintedFilters(stdout) = auto_filters(audio_stats[1]))

C17_Witness ==
    /\ pc = "done" /\ exit = 0 /\ C17_Case
    /\ audio_stats = Some([rms |-> 1, zcr |-> 3, centroid |-> 4100])
    /\ args.all /\ args.normalize /\ args.compress_extra /\ args.eq_extra
    /\ args.deess /\ args.tame_treble = Some(TrebleMax)
    /\ args.preset = Some("inst")
    /\ PlannedChain(args) =
         <<"highpass=f=60", "lowpass=f=16000", "loudnorm=I=-14:TP=-1.5:LRA=11">>
    /\ filters = <<"highpass=f=100", "lowpass=f=8000", "loudnorm=I=-16:TP=-2:LRA=10",
                   "highpass=f=80", "lowpass=f=12000">>

---------------------------------------------------------------------------
(* Properties of the classifier.                                            *)

\* The conditions of the four threshold rules on the classified triple.
C12_Rule1 == unit_in.zcr > 8 /\ unit_in.centroid > 4000
C12_Rule2 == unit_in.zcr < 4 /\ unit_in.centroid < 2500
C12_Rule3 == unit_in.rms < 2
C12_Rule4 == unit_in.centroid > 6000

\* C12: classify returns the label of the first matching rule in the order
\* (1) zcr > 0.08 and centroid > 4000: vocals, (2) zcr < 0.04 and centroid <
\* 2500: instrumental, (3) loudness < 0.02: speech/podcast, (4) centroid >
\* 6000: sibilant/harsh, (5) otherwise music/mixed; a triple that satisfies
\* rules 1 and 3 is vocals, never speech/podcast.
C12_FirstMatchWins ==
    pc = "unit_done" =>
      /\ (C12_Rule1 => unit_out = Some("vocals"))
      /\ (~C12_Rule1 /\ C12_Rule2 => unit_out = Some("instrumental"))
      /\ (~C12_Rule1 /\ ~C12_Rule2 /\ C12_Rule3 => unit_out = Some("speech/podcast"))
      /\ (~C12_Rule1 /\ ~C12_Rule2 /\ ~C12_Rule3 /\ C12_Rule4
            => unit_out = Some("sibilant/harsh (maybe live vocals)"))
      /\ (~C12_Rule1 /\ ~C12_Rule2 /\ ~C12_Rule3 /\ ~C12_Rule4
            => unit_out = Some("music/mixed"))
      /\ (C12_Rule1 /\ C12_Rule3 => unit_out # Some("speech/podcast"))

C12_Witness ==
    /\ pc = "unit_done"
    /\ unit_in = [rms |-> 1, zcr |-> 9, centroid |-> 4100]
    /\ C12_Rule1 /\ C12_Rule3
    /\ unit_out = Some("vocals")

---------------------------------------------------------------------------
(* Properties of auto_filters.                                              *)

\* The chain auto_filters returned, the part of it that is the sequence of
\* the content type with the two treble cuts of line 82, and the fragments
\* appended after that part.
C20_Chain == unit_out[1]
C20_Start ==
    LET n == (IF C20_Chain[1] = "highpass=f=80" THEN 4 ELSE 3)
             + (IF unit_in.centroid > 6000 THEN 2 ELSE 0)
    IN  SubSeq(C20_Chain, 1, n)
C20_Added == SubSeq(C20_Chain, Len(C20_Start) + 1, Len(C20_Chain))

\* C20: in every chain auto_filters returns, the EQ pair (highpass=f=80,
\* lowpass=f=12000) is appended only when the centroid exceeds 3500 and
\* highpass=f=80 is not in the chain already, and the de-esser only when
\* the centroid exceeds 5000 and no de-esser is in the chain already; no
\* fragment string occurs twice in the chain.
C20_NoDuplicateFragments ==
    pc = "unit_done" =>
      /\ C20_Added \in {<<>>, <<"highpass=f=80", "lowpass=f=12000">>, <<"deesser">>,
                        <<"highpass=f=80", "lowpass=f=12000", "deesser">>}
      /\ ("highpass=f=80" \in Range(C20_Added)
            <=> unit_in.centroid > 3500 /\ "highpass=f=80" \notin Range(C20_Start))
      /\ ("deesser" \in Range(C20_Added)
            <=> unit_in.centroid > 5000 /\ "deesser" \notin Range(C20_Start))
      /\ \A i, j \in 1..Len(C20_Chain) : C20_Chain[i] = C20_Chain[j] => i = j

\* A speech/podcast triple with a high centroid: both the EQ pair and the
\* de-esser are appended.
C20_Witness ==
    /\ pc = "unit_done"
    /\ unit_in = [rms |-> 1, zcr |-> 6, centroid |-> 6100]
    /\ C20_Chain = <<"highpass=f=100", "lowpass=f=8000", "loudnorm=I=-16:TP=-2:LRA=10",
                     "equalizer=f=6000:t=q:w=1.5:g=-6",
                     "equalizer=f=10000:t=q:w=1.5:g=-8",
                     "highpass=f=80", "lowpass=f=12000", "deesser">>

\* A vocals triple: the pair and the de-esser are in the chain already and
\* are not appended again.
C20_WitnessSuppressed ==
    /\ pc = "unit_done"
    /\ unit_in = [rms |-> 20, zcr |-> 9, centroid |-> 5100]
    /\ C20_Chain = <<"highpass=f=80", "lowpass=f=12000", "deesser",
                     "loudnorm=I=-14:TP=-1.5:LRA=11">>

\* The label of the classified triple, and the base sequence of the chain:
\* its fragments before the treble cuts and the appended ones.
C21_Label == classify_content(unit_in)
C21_Base ==
    SubSeq(C20_Chain, 1, IF C20_Chain[1] = "highpass=f=80" THEN 4 ELSE 3)

\* The preset whose sequence each label's base is to mirror; the compound
\* recommendation "vocals + de-ess" stands on the vocals sequence, which
\* holds the de-esser.
C21_Mirror(label) ==
    CASE label = "vocals" -> "vocals"
      [] label = "instrumental" -> "inst"
      [] label = "speech/podcast" -> "podcast"
      [] label = "sibilant/harsh (maybe live vocals)" -> "vocals"
      [] label = "music/mixed" -> "music"

\* C21: the base sequence auto_filters selects is keyed by the content
\* label: each label's base mirrors the preset recommended for it, two
\* triples with different labels get different bases, and sibilant/harsh
\* does not get the base of music/mixed.
C21_DistinctBases ==
    pc = "unit_done" =>
      /\ C21_Base = C11_Fixed(C21_Mirror(C21_Label))
      /\ \A s \in StatsSpace :
            classify_content(s) # C21_Label => AutoBase(classify_content(s)) # C21_Base
      /\ (C21_Label = "sibilant/harsh (maybe live vocals)"
            => C21_Base # <<"highpass=f=80", "lowpass=f=14000",
                            "acompressor=threshold=-18dB:ratio=3:attack=20:release=250",
                            "loudnorm=I=-14:TP=-1.5:LRA=11">>)

\* The four labels with a branch of their own get the sequence of their
\* preset.
C21_OtherLabelsMirror ==
    (pc = "unit_done" /\ C21_Label # "sibilant/harsh (maybe live vocals)") =>
      C21_Base = C11_Fixed(C21_Mirror(C21_Label))

---------------------------------------------------------------------------
(* Properties of the rotation mapper.                                       *)

\* The other direction.
Opposite(direction) == IF direction = "cw" THEN "ccw" ELSE "cw"

\* C13: for every degree value d, mapRotation(d, cw) and mapRotation(-d, ccw)
\* return the same fragment: the answer for (d, direction) is the answer for
\* (-d, the other direction).
C13_SignSymmetry ==
    pc = "unit_done" =>
      unit_out = Some(get_video_rotation_filter(Negated(unit_in.degrees),
                                                Opposite(unit_in.direction)))

C13_Witness ==
    /\ pc = "unit_done"
    /\ unit_in = [degrees |-> Float(45), direction |-> "cw"]
    /\ unit_out = Some("rotate=0.7853981633974483:bilinear=1")
    /\ get_video_rotation_filter(Float(-45), "ccw") = "rotate=0.7853981633974483:bilinear=1"
    /\ get_video_rotation_filter(Float(45), "ccw") = "rotate=-0.7853981633974483:bilinear=1"
    /\ get_video_rotation_filter(Float(0), "cw") = "rotate=0.0:bilinear=1"
    /\ get_video_rotation_filter(Negated(Float(0)), "ccw") = "rotate=0.0:bilinear=1"
    /\ get_video_rotation_filter(Float(0), "ccw") = "rotate=-0.0:bilinear=1"

\* The signed angle of the mapped input, and congruence modulo a full turn.
C14_Angle == SignedAngle(unit_in.degrees, unit_in.direction)
Congruent(a, r) == (Whole(a) - r) % 360 = 0

\* C14: for every degree value and direction the mapper returns the
\* 90-degree transpose fragment when the signed angle is congruent to 90
\* modulo 360 (90 cw, -270 cw, 270 ccw), the 270-degree fragment when it is
\* congruent to 270 (270 cw, -90 cw, 90 ccw) and the double transpose when
\* it is congruent to 180 (180 and -180, either direction), also beyond one
\* full turn (450).
C14_DiscreteFragments ==
    /\ pc = "unit_done" =>
          /\ (Congruent(C14_Angle, 90) => unit_out = Some("transpose=1"))
          /\ (Congruent(C14_Angle, 270) => unit_out = Some("transpose=2"))
          /\ (Congruent(C14_Angle, 180) => unit_out = Some("transpose=2,transpose=2"))
    /\ \A in \in {<<90, "cw">>, <<-270, "cw">>, <<270, "ccw">>, <<450, "cw">>} :
          get_video_rotation_filter(Float(in[1]), in[2]) = "transpose=1"
    /\ \A in \in {<<270, "cw">>, <<-90, "cw">>, <<90, "ccw">>, <<630, "cw">>} :
          get_video_rotation_filter(Float(in[1]), in[2]) = "transpose=2"
    /\ \A in \in {<<180, "cw">>, <<-180, "cw">>, <<180, "ccw">>, <<-180, "ccw">>} :
          get_video_rotation_filter(Float(in[1]), in[2]) = "transpose=2,transpose=2"

C14_Witness ==
    /\ pc = "unit_done"
    /\ unit_in = [degrees |-> Float(450), direction |-> "cw"]
    /\ Congruent(C14_Angle, 90)
    /\ unit_out = Some("transpose=1")

\* The mapper has answered for a signed angle off the four right angles.
C8_Case ==
    /\ pc = "unit_done"
    /\ Whole(AngleMod(SignedAngle(unit_in.degrees, unit_in.direction)))
          \notin {0, 90, 180, 270}

\* C8 (as stated): for a signed angle not congruent to 0, 90, 180 or 270
\* modulo 360 the result is the continuous-rotation fragment whose angle is
\* the signed angle reduced modulo 360, times pi/180.
C8_ReducedAngle ==
    C8_Case =>
      unit_out = Some("rotate="
                      \o FloatRepr[Radians(AngleMod(SignedAngle(unit_in.degrees,
                                                                unit_in.direction)))]
                      \o ":bilinear=1")

\* C8 (amended): for such an angle the result is the continuous-rotation
\* fragment whose angle is the signed angle itself, not reduced, times
\* pi/180; d and d+360 give fragments a full turn apart.
C8_UnreducedAngle ==
    C8_Case =>
      /\ unit_out = Some("rotate="
                         \o FloatRepr[Radians(SignedAngle(unit_in.degrees,
                                                          unit_in.direction))]
                         \o ":bilinear=1")
      /\ (Float(Whole(unit_in.degrees) + FullTurn) \in Degs =>
            get_video_rotation_filter(Float(Whole(unit_in.degrees) + FullTurn),
                                      unit_in.direction)
              # unit_out[1])

C8_Witness ==
    /\ C8_Case
    /\ unit_in.degrees = Float(405)
    /\ unit_in.direction = "cw"
    /\ unit_out = Some("rotate=7.068583470577034:bilinear=1")
    /\ get_video_rotation_filter(Float(45), "cw") = "rotate=0.7853981633974483:bilinear=1"

===========================================================================
